---- MODULE Spec2Model ----
(***************************************************************************)
(* Payload capture for the audit log (package common) and the LogDetail    *)
(* retention cleaner (package model) of new-api.                           *)
(*                                                                         *)
(* A Go string is modelled by its Unicode code points, a []byte as a       *)
(* sequence of numbers in 0..255.  The conversions between the two         *)
(* (string(data), []rune(value), range over a string, %d) are spelled out  *)
(* below.                                                                  *)
(***************************************************************************)
EXTENDS Integers, Sequences, FiniteSets, TLC

(***************************************************************************)
(* Strings.  A string is kept run-length encoded: a sequence of runs       *)
(* [r |-> code point, n |-> repetitions], n >= 1, neighbouring runs of      *)
(* different code points, so that equal strings are equal values.  The      *)
(* operators below are the string operations of the Go code on that form.   *)
(***************************************************************************)

\* n copies of the code point r
Rep(r, n) == IF n <= 0 THEN <<>> ELSE <<[r |-> r, n |-> n]>>

\* a + b
Cat(a, b) ==
    IF a = <<>> THEN b
    ELSE IF b = <<>> THEN a
    ELSE IF a[Len(a)].r = b[1].r
    THEN SubSeq(a, 1, Len(a) - 1) \o <<[r |-> b[1].r, n |-> a[Len(a)].n + b[1].n]>> \o Tail(b)
    ELSE a \o b

\* the string of a sequence of code points written out one by one
RECURSIVE Str(_)
Str(points) ==
    IF points = <<>> THEN <<>>
    ELSE IF Len(points) = 1 THEN Rep(points[1], 1)
    ELSE LET half == Len(points) \div 2
         IN  Cat(Str(SubSeq(points, 1, half)), Str(SubSeq(points, half + 1, Len(points))))

\* len([]rune(s))
RECURSIVE RuneCount(_)
RuneCount(s) == IF s = <<>> THEN 0 ELSE Head(s).n + RuneCount(Tail(s))

\* string([]rune(s)[:n])
RECURSIVE Take(_, _)
Take(s, n) ==
    IF n <= 0 \/ s = <<>> THEN <<>>
    ELSE IF Head(s).n >= n THEN Rep(Head(s).r, n)
    ELSE <<Head(s)>> \o Take(Tail(s), n - Head(s).n)

\* string([]rune(s)[n:])
RECURSIVE Drop(_, _)
Drop(s, n) ==
    IF n <= 0 \/ s = <<>> THEN s
    ELSE IF Head(s).n > n THEN <<[r |-> Head(s).r, n |-> Head(s).n - n]>> \o Tail(s)
    ELSE Drop(Tail(s), n - Head(s).n)

\* the runs s[i..] begin with the text sub, which may start inside run i
MatchesAt(s, i, sub) ==
    LET k == Len(sub)
    IN  /\ i + k - 1 <= Len(s)
        /\ s[i].r = sub[1].r
        /\ s[i + k - 1].r = sub[k].r
        /\ IF k = 1 THEN s[i].n >= sub[1].n
           ELSE /\ s[i].n >= sub[1].n
                /\ s[i + k - 1].n >= sub[k].n
                /\ \A j \in 2..(k - 1) : s[i + j - 1] = sub[j]

\* strings.Contains(s, sub)
Contains(s, sub) == sub = <<>> \/ \E i \in 1..Len(s) : MatchesAt(s, i, sub)

\* strings.HasSuffix(s, suf)
HasSuffix(s, suf) ==
    LET k == Len(suf)
        i == Len(s) - k + 1
    IN  \/ suf = <<>>
        \/ /\ i >= 1
           /\ MatchesAt(s, i, suf)
           /\ k = 1 \/ s[Len(s)].n = suf[k].n

\* strings.HasPrefix(s, pre)
HasPrefix(s, pre) == Take(s, RuneCount(pre)) = pre

\* fmt's %d of a non-negative int: its decimal digits, most significant first
RECURSIVE Itoa(_)
Itoa(n) == IF n < 10 THEN Rep(48 + n, 1) ELSE Cat(Itoa(n \div 10), Rep(48 + (n % 10), 1))

IsDigit(r) == r >= 48 /\ r <= 57

\* unicode.IsSpace, the class strings.TrimSpace cuts
IsSpace(r) ==
    \/ r \in {9, 10, 11, 12, 13, 32, 133, 160, 5760, 8232, 8233, 8239, 8287, 12288}
    \/ (r >= 8192 /\ r <= 8202)

\* strings.TrimSpace(s)
TrimSpace(s) ==
    IF \A i \in 1..Len(s) : IsSpace(s[i].r) THEN <<>>
    ELSE LET lo == CHOOSE i \in 1..Len(s) :
                       ~IsSpace(s[i].r) /\ \A j \in 1..(i - 1) : IsSpace(s[j].r)
             hi == CHOOSE i \in 1..Len(s) :
                       ~IsSpace(s[i].r) /\ \A j \in (i + 1)..Len(s) : IsSpace(s[j].r)
         IN  SubSeq(s, lo, hi)

\* strings.Join(segments, "")
RECURSIVE Join(_)
Join(segments) ==
    IF segments = <<>> THEN <<>> ELSE Cat(Head(segments), Join(Tail(segments)))

(***************************************************************************)
(* UTF-8 (unicode/utf8), as far as the payload code relies on it           *)
(***************************************************************************)

IsCont(b) == b >= 128 /\ b <= 191

ByteAt(d, i) == IF i >= 1 /\ i <= Len(d) THEN d[i] ELSE -1

\* the length of the well-formed UTF-8 sequence that starts at d[i], 0 if none
SeqLenAt(d, i) ==
    LET b0 == ByteAt(d, i)
        b1 == ByteAt(d, i + 1)
        b2 == ByteAt(d, i + 2)
        b3 == ByteAt(d, i + 3)
    IN  IF b0 >= 0 /\ b0 <= 127 THEN 1
        ELSE IF b0 >= 194 /\ b0 <= 223 /\ IsCont(b1) THEN 2
        ELSE IF b0 = 224 /\ b1 >= 160 /\ b1 <= 191 /\ IsCont(b2) THEN 3
        ELSE IF b0 = 237 /\ b1 >= 128 /\ b1 <= 159 /\ IsCont(b2) THEN 3
        ELSE IF b0 >= 225 /\ b0 <= 239 /\ b0 # 237 /\ IsCont(b1) /\ IsCont(b2) THEN 3
        ELSE IF b0 = 240 /\ b1 >= 144 /\ b1 <= 191 /\ IsCont(b2) /\ IsCont(b3) THEN 4
        ELSE IF b0 >= 241 /\ b0 <= 243 /\ IsCont(b1) /\ IsCont(b2) /\ IsCont(b3) THEN 4
        ELSE IF b0 = 244 /\ b1 >= 128 /\ b1 <= 143 /\ IsCont(b2) /\ IsCont(b3) THEN 4
        ELSE 0

RuneError == 65533

\* the code point decoded at d[i]; RuneError when no well-formed sequence starts there
RuneAt(d, i) ==
    LET n == SeqLenAt(d, i)
    IN  IF n = 1 THEN d[i]
        ELSE IF n = 2 THEN (d[i] - 192) * 64 + (d[i + 1] - 128)
        ELSE IF n = 3 THEN (d[i] - 224) * 4096 + (d[i + 1] - 128) * 64 + (d[i + 2] - 128)
        ELSE IF n = 4 THEN (d[i] - 240) * 262144 + (d[i + 1] - 128) * 4096
                           + (d[i + 2] - 128) * 64 + (d[i + 3] - 128)
        ELSE RuneError

\* d[i] lies inside a well-formed sequence that starts before i
Covered(d, i) ==
    \E k \in 1..3 :
        /\ i - k >= 1
        /\ ~IsCont(d[i - k])
        /\ \A m \in 1..(k - 1) : IsCont(d[i - m])
        /\ SeqLenAt(d, i - k) > k

\* a decoding step of `for _, r := range string(d)` starts at d[i]: the loop
\* advances by the sequence length, and by one byte over a malformed byte
RuneStart(d, i) == ~IsCont(d[i]) \/ ~Covered(d, i)

\* the runes of d[lo..hi] in order (the fold is split in halves to keep it shallow)
RECURSIVE RunesBetween(_, _, _)
RunesBetween(d, lo, hi) ==
    IF lo > hi THEN <<>>
    ELSE IF lo = hi THEN (IF RuneStart(d, lo) THEN <<RuneAt(d, lo)>> ELSE <<>>)
    ELSE LET mid == (lo + hi) \div 2
         IN  RunesBetween(d, lo, mid) \o RunesBetween(d, mid + 1, hi)

\* the code points `range string(d)` yields, in order
Runes(d) == RunesBetween(d, 1, Len(d))

\* string(d)
String(d) == Str(Runes(d))

\* utf8.Valid(d)
utf8Valid(d) == \A i \in 1..Len(d) : RuneStart(d, i) => SeqLenAt(d, i) > 0

\* unicode.IsPrint on the range the payload code asks about
IsPrint(r) == (r >= 32 /\ r <= 126) \/ (r >= 161 /\ r # 173 /\ r # RuneError)

(***************************************************************************)
(* common: constants of the payload capture                                *)
(***************************************************************************)

maxLogPayloadRunes == 2048

\* "… [truncated " and " chars]": truncatedSuffixFmt around its %d
truncatedSuffixHead == Str(<<8230, 32, 91, 116, 114, 117, 110, 99, 97, 116, 101, 100, 32>>)
truncatedSuffixTail == Str(<<32, 99, 104, 97, 114, 115, 93>>)

\* "[truncated", the text AppendPayloadChunkForLog searches the preview for
truncatedMarker == Str(<<91, 116, 114, 117, 110, 99, 97, 116, 101, 100>>)

\* "[binary payload omitted: " and " bytes]"
binaryOmittedHead ==
    Str(<<91, 98, 105, 110, 97, 114, 121, 32, 112, 97, 121, 108, 111, 97, 100, 32,
          111, 109, 105, 116, 116, 101, 100, 58, 32>>)
binaryOmittedTail == Str(<<32, 98, 121, 116, 101, 115, 93>>)

\* "[DONE]"
doneSentinel == Str(<<91, 68, 79, 78, 69, 93>>)

ContextKeyLoggedRequestBody == "logged_request_body"
ContextKeyLoggedResponseBody == "logged_response_body"
ContextKeyLoggedRequestBodyFull == "logged_request_body_full"
ContextKeyLoggedResponseBodyFull == "logged_response_body_full"

PreviewKeys == {ContextKeyLoggedRequestBody, ContextKeyLoggedResponseBody}
FullKeys == {ContextKeyLoggedRequestBodyFull, ContextKeyLoggedResponseBodyFull}
ContextKeys == PreviewKeys \cup FullKeys

\* values of gin.Context.Keys: no entry, a string, or a []string
NoValue == [kind |-> "none"]
StringValue(s) == [kind |-> "string", s |-> s]
StringsValue(segments) == [kind |-> "strings", segments |-> segments]

\* c.Set(key, value)
Set(c, key, value) == [c EXCEPT ![key] = value]

\* c.GetString(key): "" when the key is missing or holds no string
GetString(c, key) == IF c[key].kind = "string" THEN c[key].s ELSE <<>>

(***************************************************************************)
(* common: payload capture                                                 *)
(***************************************************************************)

fullPayloadKeyFor(previewKey) ==
    IF previewKey = ContextKeyLoggedRequestBody
    THEN [key |-> ContextKeyLoggedRequestBodyFull, ok |-> TRUE]
    ELSE IF previewKey = ContextKeyLoggedResponseBody
    THEN [key |-> ContextKeyLoggedResponseBodyFull, ok |-> TRUE]
    ELSE [key |-> "", ok |-> FALSE]

setFullPayload(c, previewKey, segments) ==
    LET full == fullPayloadKeyFor(previewKey)
    IN  IF ~full.ok THEN c
        ELSE Set(c, full.key, StringsValue(segments))

\* a variant that keeps only the latest segment
appendFullPayloadSegmentLatestOnly(c, previewKey, segment) ==
    LET full == fullPayloadKeyFor(previewKey)
    IN  IF segment = <<>> \/ ~full.ok THEN c
        ELSE Set(c, full.key, StringsValue(<<segment>>))

appendFullPayloadSegment(c, previewKey, segment) ==
    LET full == fullPayloadKeyFor(previewKey)
    IN  IF segment = <<>> \/ ~full.ok THEN c
        ELSE IF c[full.key].kind = "strings"
        THEN Set(c, full.key, StringsValue(Append(c[full.key].segments, segment)))
        ELSE IF c[full.key].kind = "string"
        THEN Set(c, full.key, StringsValue(<<c[full.key].s, segment>>))
        ELSE Set(c, full.key, StringsValue(<<segment>>))

GetFullPayloadString(c, key) ==
    IF c[key].kind = "none" THEN <<>>
    ELSE IF c[key].kind = "strings" THEN Join(c[key].segments)
    ELSE c[key].s

\* a variant that counts the control characters of the whole data, not of its first 256 bytes
isBinaryPayloadWholeData(data) ==
    IF Len(data) = 0 THEN FALSE
    ELSE IF ~utf8Valid(data) THEN TRUE
    ELSE LET runes == Runes(data)
             controlCount ==
                 Cardinality({i \in 1..Len(runes) :
                     /\ runes[i] \notin {10, 13, 9}
                     /\ runes[i] < 32 /\ ~IsPrint(runes[i])})
         IN  controlCount > Len(data) \div 10

isBinaryPayload(data) ==
    IF Len(data) = 0 THEN FALSE
    ELSE IF ~utf8Valid(data) THEN TRUE
    ELSE LET sample == IF Len(data) > 256 THEN SubSeq(data, 1, 256) ELSE data
             runes == Runes(sample)
             controlCount ==
                 Cardinality({i \in 1..Len(runes) :
                     /\ runes[i] \notin {10, 13, 9}
                     /\ runes[i] < 32 /\ ~IsPrint(runes[i])})
         IN  controlCount > Len(sample) \div 10

truncatedSuffix(overflow) ==
    Cat(Cat(truncatedSuffixHead, Itoa(IF overflow < 0 THEN 0 ELSE overflow)), truncatedSuffixTail)

\* a variant whose suffix reports the length of the value, not the overflow
applyLogLimitReportingLength(value) ==
    IF RuneCount(value) <= maxLogPayloadRunes THEN value
    ELSE Cat(Take(value, maxLogPayloadRunes), truncatedSuffix(RuneCount(value)))

applyLogLimit(value) ==
    IF RuneCount(value) <= maxLogPayloadRunes THEN value
    ELSE Cat(Take(value, maxLogPayloadRunes),
             truncatedSuffix(RuneCount(value) - maxLogPayloadRunes))

\* a variant whose placeholder reports the runes of the data, not its bytes
formatPayloadForLogCountingRunes(data) ==
    IF Len(data) = 0 THEN <<>>
    ELSE IF isBinaryPayload(data)
    THEN Cat(Cat(binaryOmittedHead, Itoa(Len(Runes(data)))), binaryOmittedTail)
    ELSE applyLogLimit(String(data))

formatPayloadForLog(data) ==
    IF Len(data) = 0 THEN <<>>
    ELSE IF isBinaryPayload(data)
    THEN Cat(Cat(binaryOmittedHead, Itoa(Len(data))), binaryOmittedTail)
    ELSE applyLogLimit(String(data))

\* a variant that overwrites a preview that is already there
setPayloadAlways(c, key, value) ==
    IF value = <<>> THEN c
    ELSE Set(c, key, StringValue(value))

setPayloadIfEmpty(c, key, value) ==
    IF value = <<>> THEN c
    ELSE IF GetString(c, key) # <<>> THEN c
    ELSE Set(c, key, StringValue(value))

CapturePayloadForLog(c, key, data) ==
    LET preview == formatPayloadForLog(data)
        c1 == setPayloadIfEmpty(c, key, preview)
    IN  IF Len(data) > 0 /\ ~isBinaryPayload(data)
        THEN setFullPayload(c1, key, <<String(data)>>)
        ELSE c1

CapturePayloadStringForLog(c, key, value) ==
    IF value = <<>> THEN c
    ELSE LET preview == applyLogLimit(value)
         IN  setFullPayload(setPayloadIfEmpty(c, key, preview), key, <<value>>)

\* a variant that drops the chunks that arrive after the preview was truncated
AppendPayloadChunkOnlyToPreview(c, key, rawChunk) ==
    LET chunk == TrimSpace(rawChunk)
        existing == GetString(c, key)
        total == RuneCount(existing) + RuneCount(chunk)
        remaining == maxLogPayloadRunes - RuneCount(existing)
    IN  IF chunk = <<>> \/ chunk = doneSentinel THEN c
        ELSE IF existing = <<>>
        THEN appendFullPayloadSegment(
                 Set(c, key, StringValue(applyLogLimit(chunk))), key, chunk)
        ELSE IF Contains(existing, truncatedMarker)
        THEN c
        ELSE IF total <= maxLogPayloadRunes
        THEN appendFullPayloadSegment(
                 Set(c, key, StringValue(Cat(existing, chunk))), key, chunk)
        ELSE IF remaining <= 0
        THEN appendFullPayloadSegment(
                 Set(c, key, StringValue(Cat(Take(existing, maxLogPayloadRunes),
                                             truncatedSuffix(RuneCount(chunk))))), key, chunk)
        ELSE appendFullPayloadSegment(
                 Set(c, key, StringValue(Cat(Cat(existing, Take(chunk, remaining)),
                                             truncatedSuffix(total - maxLogPayloadRunes)))),
                 key, chunk)

AppendPayloadChunkForLog(c, key, rawChunk) ==
    LET chunk == TrimSpace(rawChunk)
        existing == GetString(c, key)
        total == RuneCount(existing) + RuneCount(chunk)
        remaining == maxLogPayloadRunes - RuneCount(existing)
    IN  IF chunk = <<>> \/ chunk = doneSentinel THEN c
        ELSE IF existing = <<>>
        THEN appendFullPayloadSegment(
                 Set(c, key, StringValue(applyLogLimit(chunk))), key, chunk)
        ELSE IF Contains(existing, truncatedMarker)
        THEN appendFullPayloadSegment(c, key, chunk)
        ELSE IF total <= maxLogPayloadRunes
        THEN appendFullPayloadSegment(
                 Set(c, key, StringValue(Cat(existing, chunk))), key, chunk)
        ELSE IF remaining <= 0
        THEN appendFullPayloadSegment(
                 Set(c, key, StringValue(Cat(Take(existing, maxLogPayloadRunes),
                                             truncatedSuffix(RuneCount(chunk))))), key, chunk)
        ELSE appendFullPayloadSegment(
                 Set(c, key, StringValue(Cat(Cat(existing, Take(chunk, remaining)),
                                             truncatedSuffix(total - maxLogPayloadRunes)))),
                 key, chunk)

(***************************************************************************)
(* model: LogDetail retention                                              *)
(*                                                                         *)
(* The log_details table is a bag of created_at values (Unix seconds): the *)
(* sweep reads no other column.  Calendar days are taken as 86400 seconds. *)
(***************************************************************************)

\* 6 * time.Hour, in seconds
logDetailCleanupInterval == 21600

logDetailCleanupBatchSize == 5000

secondsPerDay == 86400

\* a variant that takes the retention for months of thirty days: AddDate(0, -days, 0)
CutoffInMonths(now, days) == now - days * 30 * secondsPerDay

\* time.Now().AddDate(0, 0, -days).Unix()
Cutoff(now, days) == now - days * secondsPerDay

\* number of rows of the table
RECURSIVE RowCountOver(_, _)
RowCountOver(table, stamps) ==
    IF stamps = {} THEN 0
    ELSE LET t == CHOOSE x \in stamps : TRUE
         IN  table[t] + RowCountOver(table, stamps \ {t})

RowCount(table) == RowCountOver(table, DOMAIN table)

\* a variant whose comparison is not strict: WHERE created_at <= cutoff
ExpiredOrAtCutoff(table, cutoff) == {t \in DOMAIN table : t <= cutoff}

\* the rows WHERE created_at < cutoff
Expired(table, cutoff) == {t \in DOMAIN table : t < cutoff}

\* the table without n rows of created_at t
RemoveRows(table, t, n) ==
    IF n >= table[t] THEN [x \in DOMAIN table \ {t} |-> table[x]]
    ELSE [table EXCEPT ![t] = @ - n]

\* the table with one more row of created_at t
InsertRow(table, t) ==
    IF t \in DOMAIN table THEN [table EXCEPT ![t] = @ + 1]
    ELSE [x \in DOMAIN table \cup {t} |-> IF x = t THEN 1 ELSE table[x]]

\* a variant that deletes the newest expired rows first: Order("created_at DESC")
RECURSIVE DeleteNewest(_, _, _)
DeleteNewest(table, cutoff, limit) ==
    IF limit <= 0 \/ Expired(table, cutoff) = {} THEN table
    ELSE LET newest == CHOOSE t \in Expired(table, cutoff) :
                           \A u \in Expired(table, cutoff) : t >= u
             n == IF table[newest] < limit THEN table[newest] ELSE limit
         IN  DeleteNewest(RemoveRows(table, newest, n), cutoff, limit - n)

\* a variant without the limit: every expired row goes in one statement
DeleteAllExpired(table, cutoff, limit) ==
    [t \in DOMAIN table \ Expired(table, cutoff) |-> table[t]]

\* Where("created_at < ?", cutoff).Order("created_at ASC").Limit(limit).Delete(&LogDetail{})
RECURSIVE DeleteOldest(_, _, _)
DeleteOldest(table, cutoff, limit) ==
    IF limit <= 0 \/ Expired(table, cutoff) = {} THEN table
    ELSE LET oldest == CHOOSE t \in Expired(table, cutoff) :
                           \A u \in Expired(table, cutoff) : t <= u
             n == IF table[oldest] < limit THEN table[oldest] ELSE limit
         IN  DeleteOldest(RemoveRows(table, oldest, n), cutoff, limit - n)

(***************************************************************************)
(* model: the header filter of pass-through mode                           *)
(*                                                                         *)
(* An http.Header is a function from header names to the sequence of their *)
(* values; names and values are strings.                                   *)
(***************************************************************************)

ToLowerRune(r) == IF r >= 65 /\ r <= 90 THEN r + 32 ELSE r

\* strings.ToLower(s), for ASCII letters
RECURSIVE ToLower(_)
ToLower(s) ==
    IF s = <<>> THEN <<>>
    ELSE Cat(Rep(ToLowerRune(s[1].r), s[1].n), ToLower(Tail(s)))

\* strings.Split(s, sep) for a separator of one code point
RECURSIVE SplitOn(_, _)
SplitOn(s, sep) ==
    IF \A i \in 1..Len(s) : s[i].r # sep THEN <<s>>
    ELSE LET i == CHOOSE j \in 1..Len(s) : s[j].r = sep /\ \A k \in 1..(j - 1) : s[k].r # sep
             rest == IF s[i].n > 1
                     THEN <<[r |-> sep, n |-> s[i].n - 1]>> \o SubSeq(s, i + 1, Len(s))
                     ELSE SubSeq(s, i + 1, Len(s))
         IN  <<SubSeq(s, 1, i - 1)>> \o SplitOn(rest, sep)

comma == 44

nameConnection == Str(<<67, 111, 110, 110, 101, 99, 116, 105, 111, 110>>)

\* the names never passed through, in lower case: the hop-by-hop headers of RFC 7230,
\* Proxy-Connection, Host, Content-Length, and the credentials
passThroughDenied ==
    {Str(<<99, 111, 110, 110, 101, 99, 116, 105, 111, 110>>),   \* connection
     Str(<<107, 101, 101, 112, 45, 97, 108, 105, 118, 101>>),   \* keep-alive
     Str(<<112, 114, 111, 120, 121, 45, 97, 117, 116, 104, 101, 110, 116, 105, 99, 97, 116, 101>>),   \* proxy-authenticate
     Str(<<112, 114, 111, 120, 121, 45, 97, 117, 116, 104, 111, 114, 105, 122, 97, 116, 105, 111, 110>>),   \* proxy-authorization
     Str(<<116, 101>>),   \* te
     Str(<<116, 114, 97, 105, 108, 101, 114>>),   \* trailer
     Str(<<116, 114, 97, 110, 115, 102, 101, 114, 45, 101, 110, 99, 111, 100, 105, 110, 103>>),   \* transfer-encoding
     Str(<<117, 112, 103, 114, 97, 100, 101>>),   \* upgrade
     Str(<<112, 114, 111, 120, 121, 45, 99, 111, 110, 110, 101, 99, 116, 105, 111, 110>>),   \* proxy-connection
     Str(<<104, 111, 115, 116>>),   \* host
     Str(<<99, 111, 110, 116, 101, 110, 116, 45, 108, 101, 110, 103, 116, 104>>),   \* content-length
     Str(<<97, 117, 116, 104, 111, 114, 105, 122, 97, 116, 105, 111, 110>>),   \* authorization
     Str(<<99, 111, 111, 107, 105, 101>>),   \* cookie
     Str(<<97, 112, 105, 45, 107, 101, 121>>),   \* api-key
     Str(<<120, 45, 97, 112, 105, 45, 107, 101, 121>>)   \* x-api-key
    }

\* the names the values of the Connection header list
ConnectionTokens(src) ==
    IF nameConnection \notin DOMAIN src THEN {}
    ELSE UNION {{ToLower(TrimSpace(SplitOn(src[nameConnection][v], comma)[t])) :
                    t \in 1..Len(SplitOn(src[nameConnection][v], comma))} :
                v \in 1..Len(src[nameConnection])} \ {<<>>}

\* a variant that does not read the Connection header
buildPassThroughHeaderDenySetStaticOnly(src, extra) ==
    passThroughDenied \cup ({ToLower(TrimSpace(extra[i])) : i \in 1..Len(extra)} \ {<<>>})

\* buildPassThroughHeaderDenySet(src, extra): the set of denied names, in lower case
buildPassThroughHeaderDenySet(src, extra) ==
    passThroughDenied \cup ConnectionTokens(src)
        \cup ({ToLower(TrimSpace(extra[i])) : i \in 1..Len(extra)} \ {<<>>})

\* copyHeadersExcept(dst, src, deny): dst after the call
copyHeadersExcept(dst, src, deny) ==
    LET kept == {k \in DOMAIN src : ToLower(TrimSpace(k)) \notin deny}
    IN  [k \in DOMAIN dst \cup kept |-> IF k \in kept THEN src[k] ELSE dst[k]]

(***************************************************************************)
(* model: the URL of the upstream request                                  *)
(***************************************************************************)

slash == 47
colon == 58

v1Prefix == Str(<<47, 118, 49>>)

ChannelTypeOpenAI == "ChannelTypeOpenAI"
ChannelTypeOpenRouter == "ChannelTypeOpenRouter"
ChannelTypeAnthropic == "ChannelTypeAnthropic"

\* strings.TrimPrefix(s, prefix)
TrimPrefix(s, prefix) == IF HasPrefix(s, prefix) THEN Drop(s, RuneCount(prefix)) ELSE s

\* strings.TrimRight(s, "/")
TrimRightSlash(s) ==
    IF s # <<>> /\ s[Len(s)].r = slash THEN SubSeq(s, 1, Len(s) - 1) ELSE s

\* the segments of the path of a URL scheme://host/path
PathSegments(u) ==
    LET parts == SplitOn(u, slash)
    IN  IF /\ Len(parts) >= 3 /\ parts[2] = <<>>
           /\ parts[1] # <<>> /\ parts[1][Len(parts[1])].r = colon
        THEN SubSeq(parts, 4, Len(parts))
        ELSE Tail(parts)

\* the base URL has a path other than "/"
HasNonRootPath(u) == \E i \in 1..Len(PathSegments(u)) : PathSegments(u)[i] # <<>>

\* a variant that strips /v1 whatever the channel type
GetFullRequestURLAnyType(baseURL, requestURL, channelType) ==
    IF HasNonRootPath(baseURL)
    THEN Cat(TrimRightSlash(baseURL), TrimPrefix(requestURL, v1Prefix))
    ELSE Cat(TrimRightSlash(baseURL), requestURL)

\* GetFullRequestURL(baseURL, requestURL, channelType)
GetFullRequestURL(baseURL, requestURL, channelType) ==
    IF channelType # ChannelTypeOpenAI THEN Cat(baseURL, requestURL)
    ELSE IF HasNonRootPath(baseURL)
    THEN Cat(TrimRightSlash(baseURL), TrimPrefix(requestURL, v1Prefix))
    ELSE Cat(TrimRightSlash(baseURL), requestURL)

(***************************************************************************)
(* model: the header override of a channel                                 *)
(*                                                                         *)
(* HeadersOverride is a function from header names (or "*", the             *)
(* pass-through rule) to template strings; the result is a function from   *)
(* header names to strings.                                                *)
(***************************************************************************)

passThroughRule == Str(<<42>>)

clientHeaderOpen == Str(<<123, 99, 108, 105, 101, 110, 116, 95, 104, 101, 97, 100, 101, 114, 58>>)
clientHeaderClose == Str(<<125>>)

\* the template is {client_header:H}
IsClientHeaderPlaceholder(value) ==
    /\ HasPrefix(value, clientHeaderOpen)
    /\ HasSuffix(value, clientHeaderClose)

\* the H of {client_header:H}
PlaceholderHeader(value) ==
    TrimSpace(Take(Drop(value, RuneCount(clientHeaderOpen)),
                   RuneCount(value) - RuneCount(clientHeaderOpen) - 1))

\* http.Header.Get(name): the first value of the header, "" when there is none
HeaderGet(h, name) ==
    IF \E k \in DOMAIN h : ToLower(k) = ToLower(name)
    THEN (h[CHOOSE k \in DOMAIN h : ToLower(k) = ToLower(name)])[1]
    ELSE <<>>

\* the value an override template resolves to
ResolveOverride(value, inbound) ==
    IF IsClientHeaderPlaceholder(value) THEN HeaderGet(inbound, PlaceholderHeader(value))
    ELSE value

\* a variant that resolves client headers also for a channel test
processHeaderOverrideTestAsLive(IsChannelTest, HeadersOverride, inbound) ==
    LET passed == IF passThroughRule \in DOMAIN HeadersOverride
                  THEN copyHeadersExcept(<<>>, inbound,
                                         buildPassThroughHeaderDenySet(inbound, <<>>))
                  ELSE <<>>
        named == DOMAIN HeadersOverride \ {passThroughRule}
    IN  [headers |-> [k \in DOMAIN passed \cup named |->
                         IF k \in named THEN ResolveOverride(HeadersOverride[k], inbound)
                         ELSE passed[k][1]],
         err |-> FALSE]

\* a variant that skips client headers also for a live request
processHeaderOverrideLiveAsTest(IsChannelTest, HeadersOverride, inbound) ==
    LET named == {k \in DOMAIN HeadersOverride \ {passThroughRule} :
                     ~IsClientHeaderPlaceholder(HeadersOverride[k])}
    IN  [headers |-> [k \in named |-> HeadersOverride[k]], err |-> FALSE]

\* processHeaderOverride(info, c): the headers and whether an error is returned
processHeaderOverride(IsChannelTest, HeadersOverride, inbound) ==
    LET passed == IF passThroughRule \in DOMAIN HeadersOverride /\ ~IsChannelTest
                  THEN copyHeadersExcept(<<>>, inbound,
                                         buildPassThroughHeaderDenySet(inbound, <<>>))
                  ELSE <<>>
        named == {k \in DOMAIN HeadersOverride \ {passThroughRule} :
                     ~(IsChannelTest /\ IsClientHeaderPlaceholder(HeadersOverride[k]))}
    IN  [headers |-> [k \in DOMAIN passed \cup named |->
                         IF k \in named THEN ResolveOverride(HeadersOverride[k], inbound)
                         ELSE passed[k][1]],
         err |-> FALSE]

(***************************************************************************)
(* web: aggregation of a recorded stream into one message                  *)
(* (UsageLogDetailDrawer.jsx)                                              *)
(*                                                                         *)
(* A JavaScript property that may be undefined or null is a record         *)
(* [some, v]; a sparse array or a Map is a function from the indices it    *)
(* holds; strings are as above.                                            *)
(***************************************************************************)

None == [some |-> FALSE, v |-> <<>>]
Some(v) == [some |-> TRUE, v |-> v]

\* if (p), for a string property p
Truthy(p) == p.some /\ p.v # <<>>

\* p || '' and p ?? '', for a string property p
OrEmpty(p) == IF p.some THEN p.v ELSE <<>>

roleAssistant == Str(<<97, 115, 115, 105, 115, 116, 97, 110, 116>>)

\* the body of delta.tool_calls.forEach in aggregateOpenAIStreamChunks, with the
\* argument fragment replacing what was accumulated
ApplyToolDeltaKeepingLastFragment(toolCalls, toolDelta, index) ==
    LET targetIndex == IF toolDelta.index.some THEN toolDelta.index.v ELSE index
        existing ==
            IF targetIndex \in DOMAIN toolCalls THEN toolCalls[targetIndex]
            ELSE [id |-> toolDelta.id, type |-> toolDelta.type,
                  name |-> OrEmpty(toolDelta.name), arguments |-> <<>>]
        updated ==
            [id |-> IF Truthy(toolDelta.id) THEN toolDelta.id ELSE existing.id,
             type |-> IF Truthy(toolDelta.type) THEN toolDelta.type ELSE existing.type,
             name |-> IF Truthy(toolDelta.name) THEN toolDelta.name.v ELSE existing.name,
             arguments |-> IF Truthy(toolDelta.arguments) THEN toolDelta.arguments.v
                           ELSE existing.arguments]
    IN  [i \in DOMAIN toolCalls \cup {targetIndex} |->
            IF i = targetIndex THEN updated ELSE toolCalls[i]]

\* the body of delta.tool_calls.forEach in aggregateOpenAIStreamChunks: toolDelta is
\* the entry at position index of the delta's array
ApplyToolDelta(toolCalls, toolDelta, index) ==
    LET targetIndex == IF toolDelta.index.some THEN toolDelta.index.v ELSE index
        existing ==
            IF targetIndex \in DOMAIN toolCalls THEN toolCalls[targetIndex]
            ELSE [id |-> toolDelta.id, type |-> toolDelta.type,
                  name |-> OrEmpty(toolDelta.name), arguments |-> <<>>]
        updated ==
            [id |-> IF Truthy(toolDelta.id) THEN toolDelta.id ELSE existing.id,
             type |-> IF Truthy(toolDelta.type) THEN toolDelta.type ELSE existing.type,
             name |-> IF Truthy(toolDelta.name) THEN toolDelta.name.v ELSE existing.name,
             arguments |-> IF Truthy(toolDelta.arguments)
                           THEN Cat(existing.arguments, toolDelta.arguments.v)
                           ELSE existing.arguments]
    IN  [i \in DOMAIN toolCalls \cup {targetIndex} |->
            IF i = targetIndex THEN updated ELSE toolCalls[i]]

\* delta.tool_calls.forEach, from position index on
RECURSIVE ApplyToolDeltas(_, _, _)
ApplyToolDeltas(toolCalls, toolDeltas, index) ==
    IF toolDeltas = <<>> THEN toolCalls
    ELSE ApplyToolDeltas(ApplyToolDelta(toolCalls, Head(toolDeltas), index),
                         Tail(toolDeltas), index + 1)

\* the body of streamObjects.forEach in aggregateOpenAIStreamChunks; st is role,
\* fullContent and toolCalls.  delta.reasoning_content feeds message.reasoning
\* alone and is left out.
ApplyChunk(st, chunk) ==
    IF chunk.choices = <<>> \/ ~chunk.choices[1].delta.some THEN st
    ELSE LET delta == chunk.choices[1].delta.v
         IN  [role |-> IF Truthy(delta.role) THEN delta.role.v ELSE st.role,
              fullContent |-> IF delta.content.some
                              THEN Cat(st.fullContent, delta.content.v)
                              ELSE st.fullContent,
              toolCalls |-> IF delta.tool_calls.some
                            THEN ApplyToolDeltas(st.toolCalls, delta.tool_calls.v, 0)
                            ELSE st.toolCalls]

RECURSIVE ApplyChunks(_, _)
ApplyChunks(st, streamObjects) ==
    IF streamObjects = <<>> THEN st
    ELSE ApplyChunks(ApplyChunk(st, Head(streamObjects)), Tail(streamObjects))

\* aggregateOpenAIStreamChunks(streamObjects); None is null
aggregateOpenAIStreamChunks(streamObjects) ==
    IF streamObjects = <<>> THEN None
    ELSE LET st == ApplyChunks([role |-> roleAssistant, fullContent |-> <<>>,
                                toolCalls |-> <<>>], streamObjects)
         IN  Some([role |-> st.role,
                   content |-> IF st.fullContent # <<>> THEN Some(st.fullContent) ELSE None,
                   tool_calls |-> IF DOMAIN st.toolCalls # {} THEN Some(st.toolCalls)
                                  ELSE None])

(***************************************************************************)
(* web: JSON.parse and decodeUnicodeEscapes (logDetailPrimitives.js)       *)
(*                                                                         *)
(* A parsed JSON value is [kind |-> "object", members |-> <<[key, value]>>],*)
(* [kind |-> "string", s |-> string] or [kind |-> "number", n |-> Nat].    *)
(* The texts parsed here are objects, strings with no escapes but \" and   *)
(* \\, and unsigned integers, written without white space.                 *)
(***************************************************************************)

\* the code points of a string, one by one
RECURSIVE Points(_)
Points(s) ==
    IF s = <<>> THEN <<>>
    ELSE [i \in 1..Head(s).n |-> Head(s).r] \o Points(Tail(s))

quote == 34
backslash == 92
braceOpen == 123
braceClose == 125
digitZero == 48
digitNine == 57

JSONObject(members) == [kind |-> "object", members |-> members]
JSONString(s) == [kind |-> "string", s |-> s]
JSONNumber(n) == [kind |-> "number", n |-> n]
ParseFailed == [ok |-> FALSE, value |-> JSONNumber(0), next |-> 0]
Parsed(value, next) == [ok |-> TRUE, value |-> value, next |-> next]

DigitAt(p, i) == i <= Len(p) /\ p[i] >= digitZero /\ p[i] <= digitNine

\* the digits of p from i on, read as a number that starts with n
RECURSIVE ParseDigits(_, _, _)
ParseDigits(p, i, n) ==
    IF DigitAt(p, i) THEN ParseDigits(p, i + 1, 10 * n + (p[i] - digitZero))
    ELSE Parsed(JSONNumber(n), i)

\* the rest of a string from p[j] on, after the characters read so far; of the
\* escapes, the escaped quote and the escaped backslash are read
RECURSIVE ParseCharacters(_, _, _)
ParseCharacters(p, j, characters) ==
    IF j > Len(p) THEN ParseFailed
    ELSE IF p[j] = quote THEN Parsed(JSONString(Str(characters)), j + 1)
    ELSE IF p[j] = backslash
    THEN IF j + 1 <= Len(p) /\ p[j + 1] \in {quote, backslash}
         THEN ParseCharacters(p, j + 2, Append(characters, p[j + 1]))
         ELSE ParseFailed
    ELSE ParseCharacters(p, j + 1, Append(characters, p[j]))

\* the string whose opening quote is p[i]
ParseString(p, i) == ParseCharacters(p, i + 1, <<>>)

RECURSIVE ParseValue(_, _)
RECURSIVE ParseMembers(_, _, _)

\* the members of an object from p[i] on, after the members read so far
ParseMembers(p, i, members) ==
    IF i > Len(p) \/ p[i] # quote THEN ParseFailed
    ELSE LET key == ParseString(p, i)
         IN  IF ~key.ok \/ key.next > Len(p) \/ p[key.next] # colon THEN ParseFailed
             ELSE LET value == ParseValue(p, key.next + 1)
                      read == Append(members, [key |-> key.value.s, value |-> value.value])
                  IN  IF ~value.ok \/ value.next > Len(p) THEN ParseFailed
                      ELSE IF p[value.next] = braceClose
                      THEN Parsed(JSONObject(read), value.next + 1)
                      ELSE IF p[value.next] = comma
                      THEN ParseMembers(p, value.next + 1, read)
                      ELSE ParseFailed

\* the JSON value that starts at p[i]
ParseValue(p, i) ==
    IF i > Len(p) THEN ParseFailed
    ELSE IF p[i] = braceOpen
    THEN IF i + 1 <= Len(p) /\ p[i + 1] = braceClose THEN Parsed(JSONObject(<<>>), i + 2)
         ELSE ParseMembers(p, i + 1, <<>>)
    ELSE IF p[i] = quote THEN ParseString(p, i)
    ELSE IF DigitAt(p, i) /\ (p[i] # digitZero \/ ~DigitAt(p, i + 1))
    THEN ParseDigits(p, i, 0)
    ELSE ParseFailed

\* safeParseJson(raw): JSON.parse(raw), or null when raw is empty or no JSON text
safeParseJson(raw) ==
    IF raw = <<>> THEN None
    ELSE LET p == Points(raw)
             read == ParseValue(p, 1)
         IN  IF read.ok /\ read.next = Len(p) + 1 THEN Some(read.value) ELSE None

letterN == 110
letterR == 114
letterT == 116
letterU == 117
newline == 10
carriageReturn == 13
tab == 9

\* the value of a hexadecimal digit, -1 for any other code point
HexValue(r) ==
    IF r >= 48 /\ r <= 57 THEN r - 48
    ELSE IF r >= 65 /\ r <= 70 THEN r - 55
    ELSE IF r >= 97 /\ r <= 102 THEN r - 87
    ELSE -1

\* raw.replace(/\\u([0-9a-fA-F]{4})/g, String.fromCharCode(parseInt(code, 16)))
RECURSIVE ReplaceUnicodeEscapes(_)
ReplaceUnicodeEscapes(p) ==
    IF p = <<>> THEN <<>>
    ELSE IF /\ Len(p) >= 6 /\ p[1] = backslash /\ p[2] = letterU
            /\ \A k \in 3..6 : HexValue(p[k]) >= 0
    THEN <<4096 * HexValue(p[3]) + 256 * HexValue(p[4]) + 16 * HexValue(p[5]) + HexValue(p[6])>>
         \o ReplaceUnicodeEscapes(SubSeq(p, 7, Len(p)))
    ELSE <<Head(p)>> \o ReplaceUnicodeEscapes(Tail(p))

\* output.replace(/\\n/g, '\n') and the like: backslash and letter become the code point
RECURSIVE ReplaceEscape(_, _, _)
ReplaceEscape(p, letter, point) ==
    IF p = <<>> THEN <<>>
    ELSE IF Len(p) >= 2 /\ p[1] = backslash /\ p[2] = letter
    THEN <<point>> \o ReplaceEscape(SubSeq(p, 3, Len(p)), letter, point)
    ELSE <<Head(p)>> \o ReplaceEscape(Tail(p), letter, point)

\* decodeUnicodeEscapes(raw) for a string; the test that returns raw early finds
\* nothing exactly when the four replacements change nothing
decodeUnicodeEscapes(raw) ==
    Str(ReplaceEscape(ReplaceEscape(ReplaceEscape(ReplaceUnicodeEscapes(Points(raw)),
            letterN, newline), letterR, carriageReturn), letterT, tab))

\* normaliseContent(content) for a property that is a string or missing
normaliseContent(content) ==
    IF ~Truthy(content) THEN <<>> ELSE decodeUnicodeEscapes(content.v)

(***************************************************************************)
(* web: aggregateClaudeStreamEvents                                        *)
(*                                                                         *)
(* An event is a record with its type and the properties the aggregator    *)
(* reads; blocks is the Map from index to block.                           *)
(***************************************************************************)

\* the block getBlock makes for an index the Map does not hold
NewBlock ==
    [type |-> "text", text |-> <<>>, name |-> None, id |-> None, input |-> None,
     partialJson |-> <<>>, content |-> None, reasoning |-> <<>>]

\* getBlock(index)
getBlock(blocks, index) == IF index \in DOMAIN blocks THEN blocks[index] ELSE NewBlock

\* blocks after blocks.get(index) has become block
SetBlock(blocks, index, block) ==
    [i \in DOMAIN blocks \cup {index} |-> IF i = index THEN block ELSE blocks[i]]

\* case 'content_block_start'
ContentBlockStart(blocks, event) ==
    LET index == IF event.index.some THEN event.index.v ELSE Cardinality(DOMAIN blocks)
        block == getBlock(blocks, index)
        cb == event.content_block
    IN  SetBlock(blocks, index,
            [block EXCEPT !.type = IF cb.type.some THEN cb.type.v ELSE block.type,
                          !.text = OrEmpty(cb.text),
                          !.name = cb.name,
                          !.id = cb.id,
                          !.input = cb.input,
                          !.content = cb.content,
                          !.reasoning = OrEmpty(cb.thinking)])

\* case 'content_block_delta', with a text_delta replacing the text of the block
ContentBlockDeltaKeepingLastText(blocks, event) ==
    LET index == IF event.index.some THEN event.index.v ELSE 0
        block == getBlock(blocks, index)
        delta == event.delta
    IN  SetBlock(blocks, index,
            IF delta.type = "text_delta"
            THEN [block EXCEPT !.text = OrEmpty(delta.text)]
            ELSE IF delta.type = "thinking_delta"
            THEN [block EXCEPT !.reasoning = Cat(block.reasoning, OrEmpty(delta.thinking))]
            ELSE IF delta.type = "input_json_delta"
            THEN [block EXCEPT !.partialJson = Cat(block.partialJson, OrEmpty(delta.partial_json))]
            ELSE IF delta.type = "tool_use_delta"
            THEN [block EXCEPT !.partialJson = Cat(block.partialJson, OrEmpty(delta.arguments))]
            ELSE IF Truthy(delta.text)
            THEN [block EXCEPT !.text = Cat(block.text, delta.text.v)]
            ELSE block)

\* case 'content_block_delta'
ContentBlockDelta(blocks, event) ==
    LET index == IF event.index.some THEN event.index.v ELSE 0
        block == getBlock(blocks, index)
        delta == event.delta
    IN  SetBlock(blocks, index,
            IF delta.type = "text_delta"
            THEN [block EXCEPT !.text = Cat(block.text, OrEmpty(delta.text))]
            ELSE IF delta.type = "thinking_delta"
            THEN [block EXCEPT !.reasoning = Cat(block.reasoning, OrEmpty(delta.thinking))]
            ELSE IF delta.type = "input_json_delta"
            THEN [block EXCEPT !.partialJson = Cat(block.partialJson, OrEmpty(delta.partial_json))]
            ELSE IF delta.type = "tool_use_delta"
            THEN [block EXCEPT !.partialJson = Cat(block.partialJson, OrEmpty(delta.arguments))]
            ELSE IF Truthy(delta.text)
            THEN [block EXCEPT !.text = Cat(block.text, delta.text.v)]
            ELSE block)

\* case 'content_block_stop', leaving the input of the block as it is
ContentBlockStopWithoutParse(blocks, event) ==
    LET index == IF event.index.some THEN event.index.v ELSE 0
    IN  SetBlock(blocks, index, getBlock(blocks, index))

\* case 'content_block_stop'
ContentBlockStop(blocks, event) ==
    LET index == IF event.index.some THEN event.index.v ELSE 0
        block == getBlock(blocks, index)
        parsed == safeParseJson(block.partialJson)
    IN  SetBlock(blocks, index,
            IF block.partialJson = <<>> THEN block
            ELSE [block EXCEPT !.input = IF parsed.some THEN parsed
                                         ELSE Some(JSONString(block.partialJson))])

\* the body of events.forEach in aggregateClaudeStreamEvents; st is role, reasoning
\* and blocks
ApplyClaudeEvent(st, event) ==
    IF event.type = "message_start"
    THEN [st EXCEPT !.role = IF Truthy(event.message.role) THEN event.message.role.v ELSE st.role]
    ELSE IF event.type = "content_block_start"
    THEN [st EXCEPT !.blocks = ContentBlockStart(st.blocks, event)]
    ELSE IF event.type = "content_block_delta"
    THEN [st EXCEPT !.blocks = ContentBlockDelta(st.blocks, event)]
    ELSE IF event.type = "content_block_stop"
    THEN [st EXCEPT !.blocks = ContentBlockStop(st.blocks, event)]
    ELSE IF event.type = "message_delta"
    THEN [st EXCEPT !.role = IF Truthy(event.delta.role) THEN event.delta.role.v ELSE st.role,
                    !.reasoning = IF Truthy(event.delta.reasoning)
                                  THEN Cat(st.reasoning, normaliseContent(event.delta.reasoning))
                                  ELSE st.reasoning]
    ELSE IF event.type = "message_stop"
    THEN [st EXCEPT !.role = IF Truthy(event.message.role) THEN event.message.role.v ELSE st.role]
    ELSE st

RECURSIVE ApplyClaudeEvents(_, _)
ApplyClaudeEvents(st, events) ==
    IF events = <<>> THEN st
    ELSE ApplyClaudeEvents(ApplyClaudeEvent(st, Head(events)), Tail(events))

\* the numbers of a set in increasing order
RECURSIVE Ascending(_)
Ascending(indices) ==
    IF indices = {} THEN <<>>
    ELSE LET least == CHOOSE i \in indices : \A j \in indices : i <= j
         IN  <<least>> \o Ascending(indices \ {least})

\* what sortedBlocks.filter(...).map(...) makes of one block
ContentOfBlock(block) ==
    IF block.type = "text" THEN [type |-> "text", text |-> block.text]
    ELSE IF block.type = "tool_use"
    THEN [type |-> "tool_use", id |-> block.id, name |-> block.name,
          input |-> IF block.input.some THEN block.input
                    ELSE IF TrimSpace(block.partialJson) # <<>>
                    THEN Some(JSONString(block.partialJson))
                    ELSE None]
    ELSE IF block.type = "tool_result"
    THEN [type |-> "tool_result", id |-> block.id, name |-> block.name,
          content |-> IF block.content.some THEN block.content
                      ELSE Some(JSONString(block.text))]
    ELSE [type |-> block.type,
          content |-> IF block.content.some THEN block.content
                      ELSE Some(JSONString(block.text))]

\* aggregateClaudeStreamEvents(events); None is null
aggregateClaudeStreamEvents(events) ==
    IF events = <<>> THEN None
    ELSE LET st == ApplyClaudeEvents([role |-> roleAssistant, reasoning |-> <<>>,
                                      blocks |-> <<>>], events)
             sortedBlocks == Ascending(DOMAIN st.blocks)
             IsShown(index) == st.blocks[index].type # "reasoning"
             shown == SelectSeq(sortedBlocks, IsShown)
             content == [i \in 1..Len(shown) |-> ContentOfBlock(st.blocks[shown[i]])]
             reasoning == Cat(st.reasoning,
                              Join([i \in 1..Len(shown) |-> st.blocks[shown[i]].reasoning]))
         IN  Some([role |-> st.role,
                   content |-> IF Len(content) > 0 THEN Some(content) ELSE None,
                   reasoning |-> IF TrimSpace(reasoning) # <<>> THEN Some(reasoning)
                                 ELSE None])

(***************************************************************************)
(* web: aggregateResponsesStreamEvents                                     *)
(*                                                                         *)
(* textByIndex is keyed by <<output_index, content_index>> for the string  *)
(* "output_index:content_index"; functionCallArgsByKey is keyed by IdKey   *)
(* for an item id and IndexKey for the string "output_index:N".  The text  *)
(* keys are put in order as strings, by TextKey and localeCompare.         *)
(***************************************************************************)

MapGet(map, key, otherwise) == IF key \in DOMAIN map THEN map[key] ELSE otherwise
MapSet(map, key, value) ==
    [k \in DOMAIN map \cup {key} |-> IF k = key THEN value ELSE map[k]]

IdKey(id) == [kind |-> "id", id |-> id, output_index |-> 0]
IndexKey(outputIndex) == [kind |-> "output_index", id |-> <<>>, output_index |-> outputIndex]

\* p ?? n, for a number property p
OrNumber(p, n) == IF p.some THEN p.v ELSE n

\* appendIndexedText(outputIndex, contentIndex, fragment)
appendIndexedText(textByIndex, outputIndex, contentIndex, fragment) ==
    LET text == normaliseContent(fragment)
        key == <<OrNumber(outputIndex, 0), OrNumber(contentIndex, 0)>>
    IN  IF text = <<>> THEN textByIndex
        ELSE MapSet(textByIndex, key, Cat(MapGet(textByIndex, key, <<>>), text))

\* getFunctionCallKeys(event)
getFunctionCallKeys(event) ==
    (IF event.item_id.some /\ TrimSpace(event.item_id.v) # <<>>
     THEN <<IdKey(event.item_id.v)>> ELSE <<>>)
    \o <<IndexKey(OrNumber(event.output_index, 0))>>

\* getFunctionCallKeys(event).forEach((key) => appendFunctionCallArgs(key, fragment))
RECURSIVE appendFunctionCallArgs(_, _, _)
appendFunctionCallArgs(functionCallArgsByKey, keys, fragment) ==
    IF keys = <<>> THEN functionCallArgsByKey
    ELSE appendFunctionCallArgs(
             MapSet(functionCallArgsByKey, Head(keys),
                    Cat(MapGet(functionCallArgsByKey, Head(keys), <<>>), fragment)),
             Tail(keys), fragment)

\* getFunctionCallKeys(event).forEach((key) => functionCallArgsByKey.set(key, full))
RECURSIVE setFunctionCallArgs(_, _, _)
setFunctionCallArgs(functionCallArgsByKey, keys, full) ==
    IF keys = <<>> THEN functionCallArgsByKey
    ELSE setFunctionCallArgs(MapSet(functionCallArgsByKey, Head(keys), full),
                             Tail(keys), full)

\* { ...existing, ...item }: the properties of item, then those only existing has
MergeItems(existing, item) ==
    [property \in DOMAIN item |->
        IF item[property].some THEN item[property] ELSE existing[property]]

\* upsertOutputItem(outputIndexRaw, item)
upsertOutputItem(outputItemsByIndex, outputIndexRaw, item) ==
    IF ~item.some THEN outputItemsByIndex
    ELSE LET outputIndex == IF outputIndexRaw.some THEN outputIndexRaw
                            ELSE item.v.output_index
             indexKey == OrNumber(outputIndex, Cardinality(DOMAIN outputItemsByIndex))
             merged == IF indexKey \in DOMAIN outputItemsByIndex
                       THEN MergeItems(outputItemsByIndex[indexKey], item.v)
                       ELSE item.v
         IN  MapSet(outputItemsByIndex, indexKey,
                    IF outputIndex.some THEN [merged EXCEPT !.output_index = outputIndex]
                    ELSE merged)

\* pickLongerString(a, b), for properties that are strings or missing
pickLongerString(a, b) ==
    IF RuneCount(OrEmpty(b)) > RuneCount(OrEmpty(a)) THEN OrEmpty(b) ELSE OrEmpty(a)

\* patchFunctionCallArguments(item, fallbackOutputIndex)
patchFunctionCallArguments(functionCallArgsByKey, item, fallbackOutputIndex) ==
    LET outputIndex == OrNumber(item.output_index, fallbackOutputIndex)
        keys == (IF item.id.some THEN <<IdKey(item.id.v)>> ELSE <<>>)
                \o <<IndexKey(outputIndex)>>
        Collected(key) == MapGet(functionCallArgsByKey, key, <<>>) # <<>>
        found == SelectSeq(keys, Collected)
        best == pickLongerString(item.arguments, Some(functionCallArgsByKey[found[1]]))
    IN  IF found = <<>> THEN item
        ELSE IF Some(best) = item.arguments THEN item
        ELSE [item EXCEPT !.arguments = Some(best)]

\* the events whose type includes "reasoning"
ReasoningTypes == {"response.reasoning_summary_text.delta", "response.reasoning_text.delta"}

\* the body of events.forEach in aggregateResponsesStreamEvents
ApplyResponsesEvent(st, event) ==
    LET latest == [st EXCEPT !.latestResponse = IF event.response.some THEN event.response
                                                ELSE st.latestResponse]
        upserted ==
            IF event.type \in {"response.output_item.added", "response.output_item.done"}
            THEN [latest EXCEPT !.outputItemsByIndex =
                     upsertOutputItem(latest.outputItemsByIndex,
                         IF event.output_index.some \/ ~event.item.some THEN event.output_index
                         ELSE event.item.v.output_index,
                         event.item)]
            ELSE latest
    IN  IF event.type \in {"response.function_call_arguments.delta",
                           "response.tool_call_arguments.delta"}
        THEN IF event.delta.some
             THEN [upserted EXCEPT !.functionCallArgsByKey =
                      appendFunctionCallArgs(upserted.functionCallArgsByKey,
                                             getFunctionCallKeys(event), event.delta.v)]
             ELSE upserted
        ELSE IF event.type \in {"response.function_call_arguments.done",
                                "response.tool_call_arguments.done"}
        THEN IF event.arguments.some \/ event.delta.some
             THEN [upserted EXCEPT !.functionCallArgsByKey =
                      setFunctionCallArgs(upserted.functionCallArgsByKey,
                          getFunctionCallKeys(event),
                          IF event.arguments.some THEN event.arguments.v ELSE event.delta.v)]
             ELSE upserted
        ELSE IF event.type = "response.output_text.delta"
        THEN IF event.delta.some \/ event.text.some
             THEN [upserted EXCEPT !.textByIndex =
                      appendIndexedText(upserted.textByIndex, event.output_index,
                          event.content_index,
                          IF event.delta.some THEN event.delta ELSE event.text)]
             ELSE upserted
        ELSE IF event.type = "response.output_text.done"
        THEN IF event.text.some \/ event.delta.some
             THEN [upserted EXCEPT !.textByIndex =
                      appendIndexedText(upserted.textByIndex, event.output_index,
                          event.content_index,
                          IF event.text.some THEN event.text ELSE event.delta)]
             ELSE upserted
        ELSE IF event.type \in ReasoningTypes /\ (event.delta.some \/ event.text.some)
        THEN [upserted EXCEPT !.reasoning =
                 Cat(upserted.reasoning,
                     normaliseContent(IF event.delta.some THEN event.delta ELSE event.text))]
        ELSE upserted

RECURSIVE ApplyResponsesEvents(_, _)
ApplyResponsesEvents(st, events) ==
    IF events = <<>> THEN st
    ELSE ApplyResponsesEvents(ApplyResponsesEvent(st, Head(events)), Tail(events))

\* the key string of a slot: `${outputIndex ?? 0}:${contentIndex ?? 0}`
TextKey(slot) == Cat(Cat(Itoa(slot[1]), Rep(colon, 1)), Itoa(slot[2]))

\* the place of a character of a key string in the collation localeCompare uses:
\* the colon, as punctuation, before the digits, the digits in their order
CollationWeight(r) == IF r = colon THEN 0 ELSE r

\* a.localeCompare(b) for key strings, on their code points: negative, 0 or positive
RECURSIVE localeCompare(_, _)
localeCompare(a, b) ==
    IF a = <<>> /\ b = <<>> THEN 0
    ELSE IF a = <<>> THEN -1
    ELSE IF b = <<>> THEN 1
    ELSE IF CollationWeight(Head(a)) < CollationWeight(Head(b)) THEN -1
    ELSE IF CollationWeight(Head(a)) > CollationWeight(Head(b)) THEN 1
    ELSE localeCompare(Tail(a), Tail(b))

\* the keys of textByIndex as sort((a, b) => a[0].localeCompare(b[0])) leaves them
RECURSIVE SortedTextKeys(_)
SortedTextKeys(keys) ==
    IF keys = {} THEN <<>>
    ELSE LET least == CHOOSE a \in keys :
                         \A b \in keys :
                             localeCompare(Points(TextKey(a)), Points(TextKey(b))) <= 0
         IN  <<least>> \o SortedTextKeys(keys \ {least})

nameFunctionCall == Str(<<102, 117, 110, 99, 116, 105, 111, 110, 95, 99, 97, 108, 108>>)

\* what the events leave when they have all been applied
ResponsesState(events) ==
    ApplyResponsesEvents([textByIndex |-> <<>>, outputItemsByIndex |-> <<>>,
                          functionCallArgsByKey |-> <<>>, reasoning |-> <<>>,
                          latestResponse |-> None], events)

\* aggregateResponsesStreamEvents(events); None is null
aggregateResponsesStreamEvents(events) ==
    IF events = <<>> THEN None
    ELSE
    LET st == ResponsesState(events)
        textKeys == SortedTextKeys(DOMAIN st.textByIndex)
        mergedText == Join([i \in 1..Len(textKeys) |-> st.textByIndex[textKeys[i]]])
        responseOutput == IF st.latestResponse.some THEN st.latestResponse.v.output ELSE <<>>
        outputFromResponse == Len(responseOutput) > 0
        itemKeys == Ascending(DOMAIN st.outputItemsByIndex)
        outputFromEvents == [i \in 1..Len(itemKeys) |-> st.outputItemsByIndex[itemKeys[i]]]
        baseOutput == IF outputFromResponse THEN responseOutput ELSE outputFromEvents
        patchedOutput ==
            [i \in 1..Len(baseOutput) |->
                patchFunctionCallArguments(st.functionCallArgsByKey, baseOutput[i], i - 1)]
        indexKeys == Ascending({key.output_index : key \in
                        {k \in DOMAIN st.functionCallArgsByKey :
                            /\ k.kind = "output_index"
                            /\ TrimSpace(st.functionCallArgsByKey[k]) # <<>>}})
        syntheticOutput ==
            IF Len(patchedOutput) > 0 THEN <<>>
            ELSE [i \in 1..Len(indexKeys) |->
                     [type |-> Some("function_call"), id |-> None,
                      output_index |-> Some(indexKeys[i]),
                      name |-> Some(nameFunctionCall),
                      arguments |-> Some(st.functionCallArgsByKey[IndexKey(indexKeys[i])])]]
        effectiveOutput == IF Len(patchedOutput) > 0 THEN patchedOutput ELSE syntheticOutput
        latestRole == IF st.latestResponse.some /\ Truthy(st.latestResponse.v.role)
                      THEN st.latestResponse.v.role.v ELSE roleAssistant
        hasText == TrimSpace(mergedText) # <<>>
        hasReasoning == TrimSpace(st.reasoning) # <<>>
        fallbackText ==
            IF st.latestResponse.some THEN normaliseContent(st.latestResponse.v.output_text)
            ELSE <<>>
    IN  IF Len(effectiveOutput) > 0
        THEN Some([role |-> latestRole, output |-> Some(effectiveOutput),
                   content |-> IF ~outputFromResponse /\ hasText THEN Some(mergedText)
                               ELSE None,
                   reasoning |-> IF hasReasoning THEN Some(st.reasoning) ELSE None])
        ELSE IF ~hasText /\ TrimSpace(fallbackText) # <<>>
        THEN Some([role |-> latestRole, output |-> None, content |-> Some(fallbackText),
                   reasoning |-> IF hasReasoning THEN Some(st.reasoning) ELSE None])
        ELSE IF ~hasText /\ ~hasReasoning THEN None
        ELSE Some([role |-> roleAssistant, output |-> None,
                   content |-> IF hasText THEN Some(mergedText) ELSE None,
                   reasoning |-> IF hasReasoning THEN Some(st.reasoning) ELSE None])

(***************************************************************************)
(* State                                                                   *)
(***************************************************************************)

VARIABLES
    \* one request's gin.Context and what was asked of it
    ctx,         \* gin.Context.Keys, for the four payload keys
    calls,       \* number of capture calls made so far
    sent,        \* history: per preview key, the event strings passed to AppendPayloadChunkForLog
    appendOnly,  \* history: per preview key, no Capture call has named the key
    payloadLen,  \* history: per preview key, code points of the payload the preview stands for
    cut,         \* history: per preview key, code points of that payload are missing from the preview
    lenAtCut,    \* history: per preview key, payloadLen when the preview was first cut
    \* one evaluation of isBinaryPayload
    data,        \* the argument
    binary,      \* [done |-> the call has returned, result |-> what it returned]
    \* the retention cleaner and its database
    now,         \* the clock, Unix seconds
    DetailedLogRetentionDays,   \* common.DetailedLogRetentionDays
    logDetails,  \* table log_details
    logRecords,  \* number of rows of the LogRecord table
    onceDone,    \* logDetailCleanupOnce has run
    pc,          \* where the cleanup goroutine is
    nextTick,    \* when ticker.C delivers next
    days,        \* pruneExpiredLogDetails: days
    cutoff,      \* pruneExpiredLogDetails: cutoff
    totalDeleted,\* pruneExpiredLogDetails: totalDeleted
    inserts,     \* history: rows written by requests so far
    sweep,       \* history of the current or last sweep
    cancelled,   \* ctx.Err() != nil: the context handed to pruneExpiredLogDetails is cancelled
    starts,      \* history: calls of StartLogDetailRetentionCleaner and cleanup goroutines started, up to two
    hdr,         \* a call of buildPassThroughHeaderDenySet and copyHeadersExcept: src, extra, dst
    url,         \* a call of GetFullRequestURL: baseURL, requestURL, channelType, result
    ovr,         \* a call of processHeaderOverride: info, the inbound request, the result
    agg,         \* a call of one of the stream aggregators: the events, the message
    ledger,      \* the quota ledger: the quota of one token and the requests that charge it
    dispatch     \* the dispatcher's retry loop for one request

captureVars == <<ctx, calls, sent, appendOnly, payloadLen, cut, lenAtCut>>
binaryVars == <<data, binary>>
retentionVars == <<now, DetailedLogRetentionDays, logDetails, logRecords, onceDone, pc,
                   nextTick, days, cutoff, totalDeleted, inserts, sweep, cancelled, starts>>
gatewayVars == <<ledger, dispatch>>
relayVars == <<hdr, url, ovr, agg, gatewayVars>>
vars == <<captureVars, binaryVars, retentionVars, relayVars>>

CaptureIdle ==
    /\ ctx = [k \in ContextKeys |-> NoValue]
    /\ calls = 0
    /\ sent = [k \in PreviewKeys |-> <<>>]
    /\ appendOnly = [k \in PreviewKeys |-> TRUE]
    /\ payloadLen = [k \in PreviewKeys |-> 0]
    /\ cut = [k \in PreviewKeys |-> FALSE]
    /\ lenAtCut = [k \in PreviewKeys |-> 0]

BinaryIdle == data = <<>> /\ binary = [done |-> FALSE, result |-> FALSE]

HeaderIdle == hdr = [src |-> <<>>, extra |-> <<>>, dst |-> <<>>, done |-> FALSE]

UrlIdle ==
    url = [baseURL |-> <<>>, requestURL |-> <<>>, channelType |-> "", result |-> <<>>,
           done |-> FALSE]

OverrideIdle ==
    ovr = [IsChannelTest |-> FALSE, HeadersOverride |-> <<>>, inbound |-> <<>>,
           headers |-> <<>>, err |-> FALSE, done |-> FALSE]

AggregateIdle == agg = [events |-> <<>>, message |-> None, done |-> FALSE]

\* no request is in the dispatcher
NoDispatch ==
    [candidates |-> {}, tried |-> {}, attempt |-> 0, pc |-> "idle", chosen |-> 0,
     result |-> "none", attempts |-> <<>>, outcomes |-> <<>>,
     cooldown |-> {}, disabled |-> {}, autoDisable |-> FALSE]

\* no request is at the quota ledger
NoLedger == [quota |-> 0, requests |-> <<>>]

GatewayIdle == ledger = NoLedger /\ dispatch = NoDispatch

RelayIdle == HeaderIdle /\ UrlIdle /\ OverrideIdle /\ AggregateIdle /\ GatewayIdle

\* the clock when the process starts
StartTime == 10 * secondsPerDay

\* history of a sweep: the clock and the LogRecord count when it began, its delete
\* batches so far, whether it has slept since the last one, how it ended, and
\* whether it returned in the last step; and the delete batches it made with its
\* context already cancelled
NoSweep == [startedAt |-> 0, recordsAtStart |-> 0, batches |-> 0, paused |-> FALSE,
            outcome |-> "none", fresh |-> FALSE, afterCancel |-> 0]

RetentionIdle ==
    /\ now = StartTime
    /\ DetailedLogRetentionDays = 1
    /\ logDetails = <<>>
    /\ logRecords = 0
    /\ onceDone = FALSE
    /\ pc = "notStarted"
    /\ nextTick = 0
    /\ days = 0
    /\ cutoff = 0
    /\ totalDeleted = 0
    /\ inserts = 0
    /\ sweep = NoSweep
    /\ cancelled = FALSE
    /\ starts = [calls |-> 0, loops |-> 0]

(***************************************************************************)
(* The capture calls of one request                                        *)
(***************************************************************************)

\* calls made on one context in a behaviour
MaxCalls == 3

\* event strings of a stream
Chunks ==
    { <<>>,                                  \* ""
      Str(<<32, 32, 10>>),                   \* "  \n"
      Cat(doneSentinel, Rep(10, 1)),         \* "[DONE]\n"
      Str(<<32, 97, 10>>),                   \* " a\n"
      Str(<<98, 99>>),                       \* "bc"
      truncatedMarker,                       \* "[truncated"
      Rep(120, maxLogPayloadRunes - 1),      \* "xx...x", one short of the limit
      Rep(122, maxLogPayloadRunes + 1) }     \* "zz...z", one over the limit

\* whole bodies handed over as strings
Values ==
    { <<>>,                                  \* ""
      Str(<<118, 8230>>),                    \* "v…"
      Rep(119, maxLogPayloadRunes + 2) }     \* "ww...w", two over the limit

\* whole bodies handed over as bytes
Datas ==
    { <<>>,                                  \* empty
      <<104, 226, 128, 166>>,                \* "h…" in UTF-8
      <<0, 0, 195, 169>>,                    \* NUL NUL "é": control characters
      <<255, 97>> }                          \* not UTF-8

Init == CaptureIdle /\ BinaryIdle /\ RetentionIdle /\ RelayIdle

\* history of a call that offers `value` as the whole payload of key
CaptureHistory(key, value) ==
    LET fresh == GetString(ctx, key) = <<>> /\ value # <<>>
        nowCut == GetString(ctx', key) # value
    IN  /\ appendOnly' = [appendOnly EXCEPT ![key] = FALSE]
        /\ UNCHANGED sent
        /\ payloadLen' = IF fresh THEN [payloadLen EXCEPT ![key] = RuneCount(value)]
                         ELSE payloadLen
        /\ cut' = IF fresh THEN [cut EXCEPT ![key] = nowCut] ELSE cut
        /\ lenAtCut' = IF fresh /\ nowCut THEN [lenAtCut EXCEPT ![key] = RuneCount(value)]
                       ELSE lenAtCut

CallCapturePayloadForLog(key, bytes) ==
    /\ calls < MaxCalls
    /\ calls' = calls + 1
    /\ ctx' = CapturePayloadForLog(ctx, key, bytes)
    /\ CaptureHistory(key, IF isBinaryPayload(bytes) THEN formatPayloadForLog(bytes)
                           ELSE String(bytes))
    /\ UNCHANGED <<binaryVars, retentionVars, relayVars>>

CallCapturePayloadStringForLog(key, value) ==
    /\ calls < MaxCalls
    /\ calls' = calls + 1
    /\ ctx' = CapturePayloadStringForLog(ctx, key, value)
    /\ CaptureHistory(key, value)
    /\ UNCHANGED <<binaryVars, retentionVars, relayVars>>

CallAppendPayloadChunkForLog(key, chunk) ==
    LET event == TrimSpace(chunk)
        counted == event # <<>> /\ event # doneSentinel
        nowCut == GetString(ctx', key) # Cat(GetString(ctx, key), event)
    IN  /\ calls < MaxCalls
        /\ calls' = calls + 1
        /\ ctx' = AppendPayloadChunkForLog(ctx, key, chunk)
        /\ sent' = [sent EXCEPT ![key] = Append(@, chunk)]
        /\ payloadLen' = [payloadLen EXCEPT ![key] =
                              IF counted THEN @ + RuneCount(event) ELSE @]
        /\ cut' = [cut EXCEPT ![key] = @ \/ (counted /\ nowCut)]
        /\ lenAtCut' = [lenAtCut EXCEPT ![key] =
                            IF counted /\ ~cut[key] /\ nowCut
                            THEN payloadLen[key] + RuneCount(event)
                            ELSE @]
        /\ UNCHANGED appendOnly
        /\ UNCHANGED <<binaryVars, retentionVars, relayVars>>

Next ==
    \/ \E key \in PreviewKeys, bytes \in Datas : CallCapturePayloadForLog(key, bytes)
    \/ \E key \in PreviewKeys, value \in Values : CallCapturePayloadStringForLog(key, value)
    \/ \E key \in PreviewKeys, chunk \in Chunks : CallAppendPayloadChunkForLog(key, chunk)

Spec == Init /\ [][Next]_vars

(***************************************************************************)
(* isBinaryPayload on its own                                              *)
(***************************************************************************)

\* n bytes: first the given number of control bytes (SOH) and tabs, then letters
Sample(n, controls, tabs) ==
    [i \in 1..n |-> IF i <= controls THEN 1 ELSE IF i <= controls + tabs THEN 9 ELSE 97]

\* most control bytes tried in one payload
MaxControls == 27

SampleLengths == {0, 1, 9, 10, 11, 19, 20, 21, 100, 255, 256, 257, 270}

BinaryInputs ==
    {Sample(n, c, t) : n \in SampleLengths, c \in 0..MaxControls, t \in {0, 3}}
    \cup {Sample(n, 0, 0) \o Sample(300 - n, c, 0) : n \in {250, 256}, c \in 0..MaxControls}
    \cup {Sample(255, 0, 0) \o <<195, 169>> \o Sample(c, c, 0) : c \in 0..MaxControls}
    \cup {Sample(n, 0, 0) \o <<b>> : n \in {0, 9, 256, 270}, b \in {128, 195, 255}}

InitBinary ==
    /\ CaptureIdle /\ RetentionIdle /\ RelayIdle
    /\ data \in BinaryInputs
    /\ binary = [done |-> FALSE, result |-> FALSE]

CallIsBinaryPayload ==
    /\ ~binary.done
    /\ binary' = [done |-> TRUE, result |-> isBinaryPayload(data)]
    /\ UNCHANGED <<data, captureVars, retentionVars, relayVars>>

NextBinary == CallIsBinaryPayload

SpecBinary == InitBinary /\ [][NextBinary]_vars

(***************************************************************************)
(* The retention cleaner, the clock and the requests that write log rows    *)
(***************************************************************************)

\* cleanup intervals the clock may run through in a behaviour
MaxIntervals == 1

\* single seconds the clock may run beyond a whole number of intervals
MaxDrift == 1

\* rows the requests may write in a behaviour
MaxInserts == 1

RetentionDaysChoices == {-1, 0, 1, 2}

\* created_at of the rows present at start: older than two days, just older than
\* one day, exactly one day, ten seconds
InitialStamps ==
    <<StartTime - 2 * secondsPerDay - 5, StartTime - secondsPerDay - 1,
      StartTime - secondsPerDay, StartTime - 10>>

InitialCounts ==
    <<{0, logDetailCleanupBatchSize + 1}, {0, 1, logDetailCleanupBatchSize}, {0, 1}, {0, 1}>>

TableOf(n) ==
    [t \in {InitialStamps[i] : i \in {j \in 1..4 : n[j] > 0}} |->
        n[CHOOSE i \in 1..4 : InitialStamps[i] = t]]

InitialTables ==
    {TableOf(<<n1, n2, n3, n4>>) :
        n1 \in InitialCounts[1], n2 \in InitialCounts[2],
        n3 \in InitialCounts[3], n4 \in InitialCounts[4]}

InitRetention ==
    /\ CaptureIdle /\ BinaryIdle /\ RelayIdle
    /\ now = StartTime
    /\ DetailedLogRetentionDays \in RetentionDaysChoices
    /\ logDetails \in InitialTables
    /\ logRecords = RowCount(logDetails)
    /\ onceDone = FALSE
    /\ pc = "notStarted"
    /\ nextTick = 0
    /\ days = 0
    /\ cutoff = 0
    /\ totalDeleted = 0
    /\ inserts = 0
    /\ sweep = NoSweep
    /\ cancelled = FALSE
    /\ starts = [calls |-> 0, loops |-> 0]

Stale(h) == [h EXCEPT !.fresh = FALSE]

\* a variant that never sees the cancellation
ctxErrNeverSet == FALSE

\* ctx.Err() != nil
ctxErr == cancelled

\* 1 when the condition holds, else 0
Done(condition) == IF condition THEN 1 ELSE 0

\* a count that is kept up to "two or more"
UpToTwo(n) == IF n > 2 THEN 2 ELSE n

\* a variant without the sync.Once: every call starts a goroutine
withoutOnce == FALSE

\* logDetailCleanupOnce has run its function: Do returns without calling it
logDetailCleanupOnceDone == onceDone

\* StartLogDetailRetentionCleaner: logDetailCleanupOnce.Do(go runLogDetailCleanupLoop());
\* sync.Once lets one caller at a time through, so the call is one step

StartLogDetailRetentionCleaner ==
    /\ IF logDetailCleanupOnceDone
       THEN /\ UNCHANGED <<onceDone, pc>>
            /\ starts' = [starts EXCEPT !.calls = UpToTwo(@ + 1)]
       ELSE /\ onceDone' = TRUE
            /\ pc' = "prune"
            /\ starts' = [calls |-> UpToTwo(starts.calls + 1),
                          loops |-> UpToTwo(starts.loops + 1)]
    /\ sweep' = Stale(sweep)
    /\ UNCHANGED <<now, DetailedLogRetentionDays, logDetails, logRecords, nextTick, days,
                   cutoff, totalDeleted, inserts>>
    /\ UNCHANGED <<captureVars, binaryVars, cancelled, relayVars>>

\* a variant of the error branch that goes round the loop again (continue for break)
TryAgain(outcome) ==
    /\ pc' = "loopTop"
    /\ UNCHANGED nextTick
    /\ sweep' = [sweep EXCEPT !.outcome = outcome]

\* pruneExpiredLogDetails returns to runLogDetailCleanupLoop, which makes its ticker
\* after the first sweep and then waits on ticker.C
Return(outcome) ==
    /\ pc' = "waitTick"
    /\ nextTick' = IF nextTick = 0 THEN now + logDetailCleanupInterval ELSE nextTick
    /\ sweep' = [sweep EXCEPT !.outcome = outcome, !.fresh = TRUE]

\* pruneExpiredLogDetails up to its loop
PruneEnter ==
    /\ pc = "prune"
    /\ days' = DetailedLogRetentionDays
    /\ IF days' <= 0
       THEN /\ pc' = "waitTick"
            /\ nextTick' = IF nextTick = 0 THEN now + logDetailCleanupInterval ELSE nextTick
            /\ sweep' = [NoSweep EXCEPT !.startedAt = now, !.recordsAtStart = logRecords,
                                        !.outcome = "disabled", !.fresh = TRUE]
            /\ UNCHANGED <<cutoff, totalDeleted>>
       ELSE /\ cutoff' = Cutoff(now, days')
            /\ totalDeleted' = 0
            /\ pc' = "loopTop"
            /\ sweep' = [NoSweep EXCEPT !.startedAt = now, !.recordsAtStart = logRecords,
                                        !.outcome = "running"]
            /\ UNCHANGED nextTick
    /\ UNCHANGED <<now, DetailedLogRetentionDays, logDetails, logRecords, onceDone, inserts>>
    /\ UNCHANGED <<captureVars, binaryVars, cancelled, starts, relayVars>>

\* the top of the loop: the context check
LoopTop ==
    /\ pc = "loopTop"
    /\ IF ctxErr THEN Return("cancelled")
       ELSE pc' = "delete" /\ sweep' = Stale(sweep) /\ UNCHANGED nextTick
    /\ UNCHANGED <<now, DetailedLogRetentionDays, logDetails, logRecords, onceDone, days,
                   cutoff, totalDeleted, inserts>>
    /\ UNCHANGED <<captureVars, binaryVars, cancelled, starts, relayVars>>

\* one delete statement that the database carries out, and what the loop does with the result
DeleteBatch ==
    /\ pc = "delete"
    /\ logDetails' = DeleteOldest(logDetails, cutoff, logDetailCleanupBatchSize)
    /\ LET RowsAffected == RowCount(logDetails) - RowCount(logDetails')
       IN  IF RowsAffected = 0
           THEN Return("complete") /\ UNCHANGED totalDeleted
           ELSE /\ totalDeleted' = totalDeleted + RowsAffected
                /\ IF RowsAffected < logDetailCleanupBatchSize
                   THEN /\ pc' = "waitTick"
                        /\ nextTick' = IF nextTick = 0 THEN now + logDetailCleanupInterval
                                       ELSE nextTick
                        /\ sweep' = [sweep EXCEPT !.batches = @ + 1, !.paused = FALSE,
                                                  !.afterCancel = @ + Done(cancelled),
                                                  !.outcome = "complete", !.fresh = TRUE]
                   ELSE /\ pc' = "sleep"
                        /\ sweep' = [sweep EXCEPT !.batches = @ + 1, !.paused = FALSE,
                                                  !.afterCancel = @ + Done(cancelled)]
                        /\ UNCHANGED nextTick
    /\ UNCHANGED <<now, DetailedLogRetentionDays, logRecords, onceDone, days, cutoff, inserts>>
    /\ UNCHANGED <<captureVars, binaryVars, cancelled, starts, relayVars>>

\* one delete statement that the database answers with an error
DeleteFails ==
    /\ pc = "delete"
    /\ Return("error")
    /\ UNCHANGED <<now, DetailedLogRetentionDays, logDetails, logRecords, onceDone, days,
                   cutoff, totalDeleted, inserts>>
    /\ UNCHANGED <<captureVars, binaryVars, cancelled, starts, relayVars>>

\* time.Sleep(100 * time.Millisecond) between two batches
Sleep ==
    /\ pc = "sleep"
    /\ pc' = "loopTop"
    /\ sweep' = [sweep EXCEPT !.paused = TRUE]
    /\ UNCHANGED <<now, DetailedLogRetentionDays, logDetails, logRecords, onceDone, nextTick,
                   days, cutoff, totalDeleted, inserts>>
    /\ UNCHANGED <<captureVars, binaryVars, cancelled, starts, relayVars>>

\* for range ticker.C
TickerFires ==
    /\ pc = "waitTick"
    /\ now >= nextTick
    /\ nextTick' = nextTick + logDetailCleanupInterval
    /\ pc' = "prune"
    /\ sweep' = Stale(sweep)
    /\ UNCHANGED <<now, DetailedLogRetentionDays, logDetails, logRecords, onceDone, days,
                   cutoff, totalDeleted, inserts>>
    /\ UNCHANGED <<captureVars, binaryVars, cancelled, starts, relayVars>>

\* the clock runs
TimePasses(seconds) ==
    /\ now + seconds <= StartTime + MaxIntervals * logDetailCleanupInterval + MaxDrift
    /\ (now + seconds - StartTime) % logDetailCleanupInterval <= MaxDrift
    /\ now' = now + seconds
    /\ sweep' = Stale(sweep)
    /\ UNCHANGED <<DetailedLogRetentionDays, logDetails, logRecords, onceDone, pc, nextTick,
                   days, cutoff, totalDeleted, inserts>>
    /\ UNCHANGED <<captureVars, binaryVars, cancelled, starts, relayVars>>

\* a request writes its LogRecord and its LogDetail, created_at the current time
RecordLog ==
    /\ inserts < MaxInserts
    /\ inserts' = inserts + 1
    /\ logRecords' = logRecords + 1
    /\ logDetails' = InsertRow(logDetails, now)
    /\ sweep' = Stale(sweep)
    /\ UNCHANGED <<now, DetailedLogRetentionDays, onceDone, pc, nextTick, days, cutoff,
                   totalDeleted>>
    /\ UNCHANGED <<captureVars, binaryVars, cancelled, starts, relayVars>>

NextRetention ==
    \/ StartLogDetailRetentionCleaner
    \/ PruneEnter
    \/ LoopTop
    \/ DeleteBatch
    \/ DeleteFails
    \/ Sleep
    \/ TickerFires
    \/ \E seconds \in {1, logDetailCleanupInterval} : TimePasses(seconds)
    \/ RecordLog

SpecRetention == InitRetention /\ [][NextRetention]_vars

(***************************************************************************)
(* pruneExpiredLogDetails(ctx) called with a context its caller can cancel  *)
(* (runLogDetailCleanupLoop itself passes context.Background())            *)
(***************************************************************************)

InitPrune ==
    /\ CaptureIdle /\ BinaryIdle /\ RelayIdle
    /\ now = StartTime
    /\ DetailedLogRetentionDays \in RetentionDaysChoices
    /\ logDetails \in InitialTables
    /\ logRecords = RowCount(logDetails)
    /\ onceDone = TRUE
    /\ pc = "prune"
    /\ nextTick = StartTime + logDetailCleanupInterval
    /\ days = 0
    /\ cutoff = 0
    /\ totalDeleted = 0
    /\ inserts = 0
    /\ sweep = NoSweep
    /\ cancelled = FALSE
    /\ starts = [calls |-> 0, loops |-> 0]

\* the caller cancels the context
Cancel ==
    /\ ~cancelled
    /\ cancelled' = TRUE
    /\ sweep' = Stale(sweep)
    /\ UNCHANGED <<now, DetailedLogRetentionDays, logDetails, logRecords, onceDone, pc,
                   nextTick, days, cutoff, totalDeleted, inserts, starts>>
    /\ UNCHANGED <<captureVars, binaryVars, relayVars>>

NextPrune ==
    \/ PruneEnter
    \/ LoopTop
    \/ DeleteBatch
    \/ DeleteFails
    \/ Sleep
    \/ Cancel
    \/ RecordLog

SpecPrune == InitPrune /\ [][NextPrune]_vars

\* a step of the goroutine inside pruneExpiredLogDetails
SweepStep == PruneEnter \/ LoopTop \/ DeleteBatch \/ DeleteFails \/ Sleep

\* the goroutine is scheduled again and again, its database calls and its sleep
\* return: a sweep that can take a step takes one
SpecPruneFair == SpecPrune /\ WF_vars(SweepStep)

(***************************************************************************)
(* The header filter applied to one inbound request                        *)
(***************************************************************************)

\* headers an inbound request may carry besides Connection, with their values
InboundHeaders ==
    {<<Str(<<65, 117, 116, 104, 111, 114, 105, 122, 97, 116, 105, 111, 110>>), <<Str(<<66, 101, 97, 114, 101, 114, 32, 117, 115, 101, 114>>)>>>>,   \* Authorization
     <<Str(<<88, 45, 65, 112, 105, 45, 75, 101, 121>>), <<Str(<<117, 115, 101, 114, 45, 120, 45, 107, 101, 121>>)>>>>,   \* X-Api-Key
     <<Str(<<88, 45, 72, 111, 112>>), <<Str(<<49>>)>>>>,   \* X-Hop
     <<Str(<<70, 111, 111>>), <<Str(<<98, 97, 114>>)>>>>,   \* Foo
     <<Str(<<88, 45, 84, 114, 97, 99, 101, 45, 73, 100>>), <<Str(<<97, 98, 99>>)>>>>,   \* X-Trace-Id
     <<Str(<<88, 45, 77, 117, 108, 116, 105>>), <<Str(<<97>>), Str(<<98>>)>>>>,   \* X-Multi
     <<Str(<<67, 111, 110, 116, 101, 110, 116, 45, 84, 121, 112, 101>>), <<Str(<<116, 101, 120, 116, 47, 112, 108, 97, 105, 110>>)>>>>,   \* Content-Type
     <<Str(<<85, 112, 103, 114, 97, 100, 101>>), <<Str(<<119, 101, 98, 115, 111, 99, 107, 101, 116>>)>>>>   \* Upgrade
    }

\* values of the inbound Connection header: none, or
\* "X-Hop, keep-alive"; " X-Hop , Foo "; "close" and "x-trace-id,,"
InboundConnections ==
    {<<>>,
     <<Str(<<88, 45, 72, 111, 112, 44, 32, 107, 101, 101, 112, 45, 97, 108, 105, 118, 101>>)>>,
     <<Str(<<32, 88, 45, 72, 111, 112, 32, 44, 32, 70, 111, 111, 32>>)>>,
     <<Str(<<99, 108, 111, 115, 101>>), Str(<<120, 45, 116, 114, 97, 99, 101, 45, 105, 100, 44, 44>>)>>}

\* extra deny lists: none; Sec-WebSocket-Key and Content-Type; X-MULTI
ExtraDenyLists ==
    {<<>>,
     <<Str(<<83, 101, 99, 45, 87, 101, 98, 83, 111, 99, 107, 101, 116, 45, 75, 101, 121>>), Str(<<67, 111, 110, 116, 101, 110, 116, 45, 84, 121, 112, 101>>)>>,
     <<Str(<<88, 45, 77, 85, 76, 84, 73>>)>>}

HeaderOf(entries, connection) ==
    LET names == {e[1] : e \in entries} \cup (IF connection = <<>> THEN {} ELSE {nameConnection})
    IN  [k \in names |-> IF k = nameConnection /\ connection # <<>> THEN connection
                         ELSE (CHOOSE e \in entries : e[1] = k)[2]]

InitHeaders ==
    /\ CaptureIdle /\ BinaryIdle /\ RetentionIdle
    /\ UrlIdle /\ OverrideIdle /\ AggregateIdle /\ GatewayIdle
    /\ \E entries \in SUBSET InboundHeaders, connection \in InboundConnections,
          extra \in ExtraDenyLists :
          hdr = [src |-> HeaderOf(entries, connection), extra |-> extra, dst |-> <<>>,
                 done |-> FALSE]

\* copyHeadersExcept(dst, src, buildPassThroughHeaderDenySet(src, extra)) on an empty dst
CallCopyHeadersExcept ==
    /\ ~hdr.done
    /\ hdr' = [hdr EXCEPT !.done = TRUE,
                          !.dst = copyHeadersExcept(hdr.dst, hdr.src,
                                      buildPassThroughHeaderDenySet(hdr.src, hdr.extra))]
    /\ UNCHANGED <<captureVars, binaryVars, retentionVars, gatewayVars, url, ovr, agg>>

NextHeaders == CallCopyHeadersExcept

SpecHeaders == InitHeaders /\ [][NextHeaders]_vars

(***************************************************************************)
(* The URL composed for one upstream request                               *)
(***************************************************************************)

BaseURLs ==
    {Str(<<104, 116, 116, 112, 115, 58, 47, 47, 97, 112, 105, 46, 111, 112, 101, 110, 97, 105, 46, 99, 111, 109>>),
     Str(<<104, 116, 116, 112, 115, 58, 47, 47, 97, 112, 105, 46, 111, 112, 101, 110, 97, 105, 46, 99, 111, 109, 47>>),
     Str(<<104, 116, 116, 112, 115, 58, 47, 47, 97, 112, 105, 46, 111, 112, 101, 110, 97, 105, 46, 99, 111, 109, 47, 118, 50>>),
     Str(<<104, 116, 116, 112, 115, 58, 47, 47, 97, 112, 105, 46, 111, 112, 101, 110, 97, 105, 46, 99, 111, 109, 47, 118, 50, 47>>),
     Str(<<104, 116, 116, 112, 115, 58, 47, 47, 103, 97, 116, 101, 119, 97, 121, 46, 97, 105, 46, 99, 108, 111, 117, 100, 102, 108, 97, 114, 101, 46, 99, 111, 109, 47, 97, 99, 99, 111, 117, 110, 116, 47, 103, 97, 116, 101, 119, 97, 121, 47, 111, 112, 101, 110, 97, 105>>),
     Str(<<104, 116, 116, 112, 115, 58, 47, 47, 111, 112, 101, 110, 114, 111, 117, 116, 101, 114, 46, 97, 105, 47, 97, 112, 105>>),
     Str(<<104, 116, 116, 112, 58, 47, 47, 120, 47, 121, 47, 119, 47>>)}

\* /v1/chat/completions; /v1/responses; /v1/messages; /v1/audio/speech; /v1/z
RequestURLs ==
    {Str(<<47, 118, 49, 47, 99, 104, 97, 116, 47, 99, 111, 109, 112, 108, 101, 116, 105, 111, 110, 115>>),
     Str(<<47, 118, 49, 47, 114, 101, 115, 112, 111, 110, 115, 101, 115>>),
     Str(<<47, 118, 49, 47, 109, 101, 115, 115, 97, 103, 101, 115>>),
     Str(<<47, 118, 49, 47, 97, 117, 100, 105, 111, 47, 115, 112, 101, 101, 99, 104>>),
     Str(<<47, 118, 49, 47, 122>>)}

ChannelTypes == {ChannelTypeOpenAI, ChannelTypeOpenRouter, ChannelTypeAnthropic}

InitURL ==
    /\ CaptureIdle /\ BinaryIdle /\ RetentionIdle /\ GatewayIdle /\ HeaderIdle /\ OverrideIdle /\ AggregateIdle
    /\ \E baseURL \in BaseURLs, requestURL \in RequestURLs, channelType \in ChannelTypes :
          url = [baseURL |-> baseURL, requestURL |-> requestURL, channelType |-> channelType,
                 result |-> <<>>, done |-> FALSE]

CallGetFullRequestURL ==
    /\ ~url.done
    /\ url' = [url EXCEPT !.done = TRUE,
                          !.result = GetFullRequestURL(url.baseURL, url.requestURL,
                                                       url.channelType)]
    /\ UNCHANGED <<captureVars, binaryVars, retentionVars, gatewayVars, hdr, ovr, agg>>

NextURL == CallGetFullRequestURL

SpecURL == InitURL /\ [][NextURL]_vars

(***************************************************************************)
(* The header override applied to one request                              *)
(***************************************************************************)

\* override rules a channel may hold: *: ""; X-Upstream-Trace: "{client_header:X-Trace-Id}"; X-Static: "fixed";
\* X-Lower: "{client_header:x-trace-id}"; X-Trace-Id: "{client_header:Authorization}"
OverrideRules ==
    {<<Str(<<42>>), <<>>>>,
     <<Str(<<88, 45, 85, 112, 115, 116, 114, 101, 97, 109, 45, 84, 114, 97, 99, 101>>), Str(<<123, 99, 108, 105, 101, 110, 116, 95, 104, 101, 97, 100, 101, 114, 58, 88, 45, 84, 114, 97, 99, 101, 45, 73, 100, 125>>)>>,
     <<Str(<<88, 45, 83, 116, 97, 116, 105, 99>>), Str(<<102, 105, 120, 101, 100>>)>>,
     <<Str(<<88, 45, 76, 111, 119, 101, 114>>), Str(<<123, 99, 108, 105, 101, 110, 116, 95, 104, 101, 97, 100, 101, 114, 58, 120, 45, 116, 114, 97, 99, 101, 45, 105, 100, 125>>)>>,
     <<Str(<<88, 45, 84, 114, 97, 99, 101, 45, 73, 100>>), Str(<<123, 99, 108, 105, 101, 110, 116, 95, 104, 101, 97, 100, 101, 114, 58, 65, 117, 116, 104, 111, 114, 105, 122, 97, 116, 105, 111, 110, 125>>)>>}

\* inbound requests: no header; X-Trace-Id: trace-123; and that with Authorization,
\* X-Multi and a Connection header naming X-Multi
InboundRequests ==
    {<<>>,
     HeaderOf({<<Str(<<88, 45, 84, 114, 97, 99, 101, 45, 73, 100>>), <<Str(<<116, 114, 97, 99, 101, 45, 49, 50, 51>>)>>>>}, <<>>),
     HeaderOf({<<Str(<<88, 45, 84, 114, 97, 99, 101, 45, 73, 100>>), <<Str(<<116, 114, 97, 99, 101, 45, 49, 50, 51>>)>>>>,
               <<Str(<<65, 117, 116, 104, 111, 114, 105, 122, 97, 116, 105, 111, 110>>), <<Str(<<66, 101, 97, 114, 101, 114, 32, 117, 115, 101, 114>>)>>>>,
               <<Str(<<88, 45, 77, 117, 108, 116, 105>>), <<Str(<<97>>), Str(<<98>>)>>>>,
               <<Str(<<88, 45, 70, 111, 111>>), <<Str(<<102, 111, 111>>)>>>>},
              <<Str(<<88, 45, 77, 117, 108, 116, 105>>)>>)}

OverrideOf(rules) == [k \in {r[1] : r \in rules} |-> (CHOOSE r \in rules : r[1] = k)[2]]

InitOverride ==
    /\ CaptureIdle /\ BinaryIdle /\ RetentionIdle /\ GatewayIdle /\ HeaderIdle /\ UrlIdle /\ AggregateIdle
    /\ \E test \in BOOLEAN, rules \in SUBSET OverrideRules, inbound \in InboundRequests :
          ovr = [IsChannelTest |-> test, HeadersOverride |-> OverrideOf(rules),
                 inbound |-> inbound, headers |-> <<>>, err |-> FALSE, done |-> FALSE]

CallProcessHeaderOverride ==
    /\ ~ovr.done
    /\ LET got == processHeaderOverride(ovr.IsChannelTest, ovr.HeadersOverride, ovr.inbound)
       IN  ovr' = [ovr EXCEPT !.done = TRUE, !.headers = got.headers, !.err = got.err]
    /\ UNCHANGED <<captureVars, binaryVars, retentionVars, gatewayVars, hdr, url, agg>>

NextOverride == CallProcessHeaderOverride

SpecOverride == InitOverride /\ [][NextOverride]_vars

(***************************************************************************)
(* aggregateOpenAIStreamChunks on the chunks of a recorded stream          *)
(***************************************************************************)

\* longest list of stream objects handed to an aggregator
MaxChunks == 3

RECURSIVE Flatten(_)
Flatten(lists) == IF lists = <<>> THEN <<>> ELSE Head(lists) \o Flatten(Tail(lists))

Delta(role, content, tool_calls) ==
    [role |-> role, content |-> content, tool_calls |-> tool_calls]
ToolDelta(index, id, type, name, arguments) ==
    [index |-> index, id |-> id, type |-> type, name |-> name, arguments |-> arguments]
Chunk(delta) == [choices |-> <<[delta |-> Some(delta)]>>]

typeFunction == Str(<<102, 117, 110, 99, 116, 105, 111, 110>>)

\* chat.completion.chunk objects: text fragments, tool call fragments for index 0
\* and 1, a tool call without an index, and chunks that carry no delta
OpenAIChunks ==
    {[choices |-> <<>>],                                    \* the usage chunk
     [choices |-> <<[delta |-> None]>>],                    \* a choice without a delta
     Chunk(Delta(Some(roleAssistant), Some(<<>>), None)),   \* role, content ""
     Chunk(Delta(None, Some(Str(<<72, 101>>)), None)),   \* He
     Chunk(Delta(None, Some(Str(<<108, 108, 111>>)), None)),   \* llo
     [choices |-> <<[delta |-> Some(Delta(None, Some(Str(<<33>>)), None))],
                    [delta |-> Some(Delta(None, Some(Str(<<63>>)), None))]>>],   \* ! and, second choice, ?
     Chunk(Delta(None, None, Some(<<ToolDelta(Some(0), Some(Str(<<99, 97, 108, 108, 95, 49>>)),
                 Some(typeFunction), Some(Str(<<102>>)), Some(<<>>))>>))),   \* call_1, f, ""
     Chunk(Delta(None, None, Some(<<ToolDelta(Some(0), None, None, None,
                 Some(Str(<<123, 97>>)))>>))),   \* {a
     Chunk(Delta(None, None, Some(<<ToolDelta(Some(0), None, None, None,
                 Some(Str(<<58, 49, 125>>))),
                 ToolDelta(Some(1), Some(Str(<<99, 97, 108, 108, 95, 50>>)), Some(typeFunction),
                 Some(Str(<<103>>)), Some(Str(<<123, 125>>)))>>))),   \* :1} and call_2, g, {}
     Chunk(Delta(None, None, Some(<<ToolDelta(None, Some(Str(<<99, 97, 108, 108, 95, 51>>)),
                 Some(typeFunction), Some(Str(<<104>>)), Some(Str(<<120>>)))>>)))}   \* call_3, h, x

ListsOf(shapes, n) == UNION {[1..k -> shapes] : k \in 0..n}

InitOpenAIStream ==
    /\ CaptureIdle /\ BinaryIdle /\ RetentionIdle /\ GatewayIdle /\ HeaderIdle /\ UrlIdle /\ OverrideIdle
    /\ \E streamObjects \in ListsOf(OpenAIChunks, MaxChunks) :
          agg = [events |-> streamObjects, message |-> None, done |-> FALSE]

CallAggregateOpenAIStreamChunks ==
    /\ ~agg.done
    /\ agg' = [agg EXCEPT !.done = TRUE, !.message = aggregateOpenAIStreamChunks(agg.events)]
    /\ UNCHANGED <<captureVars, binaryVars, retentionVars, gatewayVars, hdr, url, ovr>>

NextOpenAIStream == CallAggregateOpenAIStreamChunks

SpecOpenAIStream == InitOpenAIStream /\ [][NextOpenAIStream]_vars

(***************************************************************************)
(* aggregateClaudeStreamEvents on the events of a recorded Anthropic       *)
(* message stream: message_start, the content blocks one after the other   *)
(* (content_block_start, the deltas of the block, content_block_stop),     *)
(* message_delta, message_stop.  A recording may end before the last block *)
(* is stopped.                                                             *)
(***************************************************************************)

\* most content blocks of a stream
MaxBlocks == 2

NoContentBlock ==
    [type |-> None, text |-> None, name |-> None, id |-> None, input |-> None,
     content |-> None, thinking |-> None]
NoDelta ==
    [type |-> "", text |-> None, thinking |-> None, partial_json |-> None, arguments |-> None]

MessageStart == [type |-> "message_start", message |-> [role |-> Some(roleAssistant)]]
Ping == [type |-> "ping"]
MessageDelta == [type |-> "message_delta", delta |-> [role |-> None, reasoning |-> None]]
MessageStop == [type |-> "message_stop", message |-> [role |-> None]]
BlockStart(index, content_block) ==
    [type |-> "content_block_start", index |-> Some(index), content_block |-> content_block]
BlockDelta(index, delta) ==
    [type |-> "content_block_delta", index |-> Some(index), delta |-> delta]
BlockStop(index) == [type |-> "content_block_stop", index |-> Some(index)]

\* the content blocks a stream is made of: the type of the block and the
\* fragments its deltas carry
ClaudeBlocks ==
    {[type |-> "text", fragments |-> <<Str(<<72, 101>>), Str(<<108, 108, 111>>)>>],   \* He, llo
     [type |-> "text", fragments |-> <<Str(<<108, 108, 111>>), Str(<<72, 101>>)>>],   \* llo, He
     [type |-> "text", fragments |-> <<<<>>, Str(<<33>>)>>],   \* "", !
     [type |-> "text", fragments |-> <<>>],
     [type |-> "tool_use", fragments |-> <<Str(<<123, 34, 97, 34>>), Str(<<58, 49, 125>>)>>],   \* {"a" and :1}
     [type |-> "tool_use", fragments |-> <<Str(<<123, 34, 97, 34, 58, 49, 125>>)>>],   \* {"a":1}
     [type |-> "tool_use", fragments |-> <<<<>>, Str(<<123, 125>>)>>],   \* "", {}
     [type |-> "tool_use", fragments |-> <<>>],
     [type |-> "tool_use",
      fragments |-> <<Str(<<123, 34, 97, 34, 58, 123, 34, 98, 34, 58, 34, 99, 34, 125, 44>>), Str(<<34, 100, 34, 58>>), Str(<<50, 48, 125>>)>>],   \* {"a":{"b":"c"},"d":20}
     [type |-> "thinking", fragments |-> <<Str(<<104, 109>>)>>]}   \* hm

toolUseId == Str(<<116, 111, 111, 108, 117, 95, 49>>)
toolUseName == Str(<<102>>)

\* the events of the block at index; stopped: its content_block_stop is recorded
EventsOfBlock(block, index, stopped) ==
    LET start ==
            IF block.type = "text"
            THEN [NoContentBlock EXCEPT !.type = Some("text"), !.text = Some(<<>>)]
            ELSE IF block.type = "tool_use"
            THEN [NoContentBlock EXCEPT !.type = Some("tool_use"), !.id = Some(toolUseId),
                                        !.name = Some(toolUseName),
                                        !.input = Some(JSONObject(<<>>))]
            ELSE [NoContentBlock EXCEPT !.type = Some("thinking"), !.thinking = Some(<<>>)]
        DeltaOf(fragment) ==
            IF block.type = "text"
            THEN [NoDelta EXCEPT !.type = "text_delta", !.text = Some(fragment)]
            ELSE IF block.type = "tool_use"
            THEN [NoDelta EXCEPT !.type = "input_json_delta", !.partial_json = Some(fragment)]
            ELSE [NoDelta EXCEPT !.type = "thinking_delta", !.thinking = Some(fragment)]
    IN  <<BlockStart(index, start)>>
        \o [i \in 1..Len(block.fragments) |-> BlockDelta(index, DeltaOf(block.fragments[i]))]
        \o (IF stopped THEN <<BlockStop(index)>> ELSE <<>>)

\* the events of a stream of blocks; complete: recorded to its end
EventsOfStream(blocks, complete) ==
    <<MessageStart, Ping>>
    \o Flatten([i \in 1..Len(blocks) |->
                   EventsOfBlock(blocks[i], i - 1, complete \/ i < Len(blocks))])
    \o (IF complete THEN <<MessageDelta, MessageStop>> ELSE <<>>)

InitClaudeStream ==
    /\ CaptureIdle /\ BinaryIdle /\ RetentionIdle /\ GatewayIdle /\ HeaderIdle /\ UrlIdle /\ OverrideIdle
    /\ \E blocks \in ListsOf(ClaudeBlocks, MaxBlocks), complete \in BOOLEAN :
          agg = [events |-> EventsOfStream(blocks, complete), message |-> None,
                 done |-> FALSE]

CallAggregateClaudeStreamEvents ==
    /\ ~agg.done
    /\ agg' = [agg EXCEPT !.done = TRUE, !.message = aggregateClaudeStreamEvents(agg.events)]
    /\ UNCHANGED <<captureVars, binaryVars, retentionVars, gatewayVars, hdr, url, ovr>>

NextClaudeStream == CallAggregateClaudeStreamEvents

SpecClaudeStream == InitClaudeStream /\ [][NextClaudeStream]_vars

(***************************************************************************)
(* aggregateResponsesStreamEvents on the events of a recorded Responses    *)
(* stream: response.created, the output items one after the other          *)
(* (response.output_item.added, the deltas and the done event of the item, *)
(* response.output_item.done), response.completed with the final response. *)
(***************************************************************************)

\* most output items of a stream
MaxItems == 2

NoEvent ==
    [type |-> "", response |-> None, output_index |-> None, content_index |-> None,
     item |-> None, item_id |-> None, delta |-> None, text |-> None, arguments |-> None]

Item(type, id, arguments) ==
    [type |-> Some(type), id |-> Some(id), name |-> None, arguments |-> arguments,
     output_index |-> None]

Response(output) == [output |-> output, role |-> None, output_text |-> None]

fullArguments == Str(<<123, 34, 97, 34, 58, 49, 125>>)

\* the output items a stream is made of.  A message: the fragments of its
\* response.output_text.delta events and the text of its response.output_text.done,
\* if recorded.  A function call: the arguments of the item when added, the
\* fragments of its response.function_call_arguments.delta events, the arguments
\* of its response.function_call_arguments.done and of the item when done, if
\* recorded.
ResponsesItems ==
    {[kind |-> "message", added |-> None, fragments |-> <<Str(<<72, 101, 108>>), Str(<<108, 111>>)>>,
      done |-> Some(Str(<<72, 101, 108, 108, 111>>)), finished |-> None],   \* Hel, lo; Hello
     [kind |-> "message", added |-> None, fragments |-> <<Str(<<72, 105>>)>>,
      done |-> None, finished |-> None],   \* Hi
     [kind |-> "message", added |-> None, fragments |-> <<Str(<<97, 92, 110, 98>>)>>,
      done |-> None, finished |-> None],   \* a, backslash, n, b
     [kind |-> "function_call", added |-> Some(<<>>),
      fragments |-> <<Str(<<123, 34, 97, 34>>), Str(<<58, 49, 125>>)>>,
      done |-> Some(fullArguments), finished |-> Some(fullArguments)],   \* {"a" and :1}; {"a":1}
     [kind |-> "function_call", added |-> Some(<<>>),
      fragments |-> <<Str(<<123, 34, 97, 34>>), Str(<<58, 49, 125>>)>>,
      done |-> Some(fullArguments), finished |-> None],
     [kind |-> "function_call", added |-> Some(<<>>),
      fragments |-> <<Str(<<123, 34, 97, 34>>), Str(<<58, 49, 125>>)>>,
      done |-> Some(Str(<<123, 34, 97, 34>>)), finished |-> None],   \* done cut to {"a"
     [kind |-> "function_call", added |-> Some(<<>>),
      fragments |-> <<Str(<<123, 34, 97, 34>>), Str(<<58, 49, 125>>)>>,
      done |-> None, finished |-> None],
     [kind |-> "function_call", added |-> Some(<<>>),
      fragments |-> <<Str(<<123, 34, 97, 34>>)>>,
      done |-> None, finished |-> Some(fullArguments)]}   \* a delta was lost

itemIdPrefix == Str(<<105, 116, 101, 109, 95>>)

ItemId(outputIndex) == Cat(itemIdPrefix, Itoa(outputIndex))

\* the events of the output item at outputIndex
EventsOfItem(plan, outputIndex) ==
    LET id == ItemId(outputIndex)
        At(type) == [NoEvent EXCEPT !.type = type, !.output_index = Some(outputIndex)]
        added == [At("response.output_item.added") EXCEPT
                     !.item = Some(Item(plan.kind, id, plan.added))]
        textDelta(fragment) ==
            [At("response.output_text.delta") EXCEPT
                !.content_index = Some(0), !.item_id = Some(id), !.delta = Some(fragment)]
        textDone == [At("response.output_text.done") EXCEPT
                        !.content_index = Some(0), !.item_id = Some(id), !.text = plan.done]
        argumentsDelta(fragment) ==
            [At("response.function_call_arguments.delta") EXCEPT
                !.item_id = Some(id), !.delta = Some(fragment)]
        argumentsDone == [At("response.function_call_arguments.done") EXCEPT
                             !.item_id = Some(id), !.arguments = plan.done]
        itemDone == [At("response.output_item.done") EXCEPT
                        !.item = Some(Item(plan.kind, id, plan.finished))]
    IN  IF plan.kind = "message"
        THEN <<added>>
             \o [i \in 1..Len(plan.fragments) |-> textDelta(plan.fragments[i])]
             \o (IF plan.done.some THEN <<textDone, itemDone>> ELSE <<>>)
        ELSE <<added>>
             \o [i \in 1..Len(plan.fragments) |-> argumentsDelta(plan.fragments[i])]
             \o (IF plan.done.some THEN <<argumentsDone>> ELSE <<>>)
             \o (IF plan.finished.some THEN <<itemDone>> ELSE <<>>)

\* the item of the final response for the output item at outputIndex
FinalItem(plan, outputIndex) ==
    Item(plan.kind, ItemId(outputIndex),
         IF plan.finished.some THEN plan.finished ELSE plan.added)

\* the events of a stream of output items; completed: response.completed is recorded
EventsOfResponse(plans, completed) ==
    <<[NoEvent EXCEPT !.type = "response.created", !.response = Some(Response(<<>>))]>>
    \o Flatten([i \in 1..Len(plans) |-> EventsOfItem(plans[i], i - 1)])
    \o (IF completed
        THEN <<[NoEvent EXCEPT !.type = "response.completed",
                               !.response = Some(Response(
                                   [i \in 1..Len(plans) |-> FinalItem(plans[i], i - 1)]))]>>
        ELSE <<>>)

InitResponsesStream ==
    /\ CaptureIdle /\ BinaryIdle /\ RetentionIdle /\ GatewayIdle /\ HeaderIdle /\ UrlIdle /\ OverrideIdle
    /\ \E plans \in ListsOf(ResponsesItems, MaxItems), completed \in BOOLEAN :
          agg = [events |-> EventsOfResponse(plans, completed), message |-> None,
                 done |-> FALSE]

\* the call; textByIndex is kept next to the message it was merged into
CallAggregateResponsesStreamEvents ==
    /\ ~agg.done
    /\ agg' = [events |-> agg.events, done |-> TRUE,
               message |-> aggregateResponsesStreamEvents(agg.events),
               textByIndex |-> ResponsesState(agg.events).textByIndex]
    /\ UNCHANGED <<captureVars, binaryVars, retentionVars, gatewayVars, hdr, url, ovr>>

NextResponsesStream == CallAggregateResponsesStreamEvents

SpecResponsesStream == InitResponsesStream /\ [][NextResponsesStream]_vars

(***************************************************************************)
(* aggregateResponsesStreamEvents(events) on text deltas for slots of one   *)
(* and of two digits                                                       *)
(***************************************************************************)

\* response.output_text.delta events of a stream
MaxTextDeltas == 2

OutputIndices == {0, 2, 10, 11}
ContentIndices == {0, 2, 10}

\* the fragment sent for a slot: its key and a semicolon, as in "10:0;"
SlotFragment(slot) == Cat(TextKey(slot), Rep(59, 1))

TextDelta(slot) ==
    [NoEvent EXCEPT !.type = "response.output_text.delta",
                    !.output_index = Some(slot[1]), !.content_index = Some(slot[2]),
                    !.delta = Some(SlotFragment(slot))]

InitTextSlots ==
    /\ CaptureIdle /\ BinaryIdle /\ RetentionIdle /\ GatewayIdle /\ HeaderIdle /\ UrlIdle /\ OverrideIdle
    /\ \E slots \in ListsOf(OutputIndices \X ContentIndices, MaxTextDeltas) :
          agg = [events |-> [i \in 1..Len(slots) |-> TextDelta(slots[i])],
                 message |-> None, done |-> FALSE]

NextTextSlots == CallAggregateResponsesStreamEvents

SpecTextSlots == InitTextSlots /\ [][NextTextSlots]_vars

(***************************************************************************)
(* web: splitStreamingResponse (logDetailPrimitives.js; the same function  *)
(* is in UsageLogDetailDrawer.jsx)                                         *)
(*                                                                         *)
(* The function works on the characters of the string: here a sequence of  *)
(* code points (the payloads have no character outside the Basic           *)
(* Multilingual Plane, where a UTF-16 unit is a code point).               *)
(***************************************************************************)

\* String.prototype.trim, on code points; on the characters of these payloads
\* its white space is that of strings.TrimSpace
trim(p) == Points(TrimSpace(Str(p)))

\* length of the match of /\r?\n/ that starts at p[i], 0 when there is none
LineBreakAt(p, i) ==
    IF i <= Len(p) /\ p[i] = newline THEN 1
    ELSE IF i + 1 <= Len(p) /\ p[i] = carriageReturn /\ p[i + 1] = newline THEN 2
    ELSE 0

\* length of the match of /\r?\n\r?\n/ that starts at p[i], 0 when there is none
BlankLineAt(p, i) ==
    LET first == LineBreakAt(p, i)
        second == LineBreakAt(p, i + first)
    IN  IF first > 0 /\ second > 0 THEN first + second ELSE 0

\* p.split(separator) from p[i] on, the piece in hand starting at p[start];
\* blankLines: the separator is /\r?\n\r?\n/, else /\r?\n/
RECURSIVE SplitFrom(_, _, _, _)
SplitFrom(p, i, start, blankLines) ==
    IF i > Len(p) THEN <<SubSeq(p, start, Len(p))>>
    ELSE LET matched == IF blankLines THEN BlankLineAt(p, i) ELSE LineBreakAt(p, i)
         IN  IF matched > 0
             THEN <<SubSeq(p, start, i - 1)>>
                  \o SplitFrom(p, i + matched, i + matched, blankLines)
             ELSE SplitFrom(p, i + 1, start, blankLines)

dataPrefix == <<100, 97, 116, 97, 58>>   \* "data:"

\* line.startsWith('data:')
StartsWithData(line) == Len(line) >= 5 /\ SubSeq(line, 1, 5) = dataPrefix

\* line.slice(5).trim()
DataOf(line) == trim(SubSeq(line, 6, Len(line)))

\* if (parsed) sseObjects.push(parsed): null, 0 and "" are not pushed
Pushed(objects, parsed) ==
    IF /\ parsed.some
       /\ ~(parsed.v.kind = "number" /\ parsed.v.n = 0)
       /\ ~(parsed.v.kind = "string" /\ parsed.v.s = <<>>)
    THEN Append(objects, parsed.v)
    ELSE objects

\* the first pass over one segment between blank lines
SegmentObjects(objects, segment) ==
    LET lines == SplitFrom(segment, 1, 1, FALSE)
        dataLines == SelectSeq([i \in 1..Len(lines) |-> trim(lines[i])], StartsWithData)
        candidate == Flatten([i \in 1..Len(dataLines) |-> DataOf(dataLines[i])])
    IN  IF segment = <<>> \/ dataLines = <<>> THEN objects
        ELSE IF candidate = <<>> \/ candidate = Points(doneSentinel) THEN objects
        ELSE Pushed(objects, safeParseJson(Str(candidate)))

RECURSIVE SegmentsObjects(_, _)
SegmentsObjects(objects, segments) ==
    IF segments = <<>> THEN objects
    ELSE SegmentsObjects(SegmentObjects(objects, Head(segments)), Tail(segments))

\* flushBuffer of the second pass
flushBuffer(st) ==
    LET candidate == trim(st.dataBuffer)
    IN  IF candidate = <<>> \/ candidate = Points(doneSentinel)
        THEN [st EXCEPT !.dataBuffer = <<>>]
        ELSE [objects |-> Pushed(st.objects, safeParseJson(Str(candidate))),
              dataBuffer |-> <<>>]

\* the second pass over one line
LineObjects(st, line) ==
    LET current == trim(line)
        payload == DataOf(current)
        joined == st.dataBuffer \o payload
    IN  IF current = <<>> THEN flushBuffer(st)
        ELSE IF ~StartsWithData(current) \/ payload = <<>> THEN st
        ELSE IF st.dataBuffer = <<>>
        THEN IF Pushed(st.objects, safeParseJson(Str(payload))) # st.objects
             THEN [st EXCEPT !.objects = Pushed(st.objects, safeParseJson(Str(payload)))]
             ELSE [st EXCEPT !.dataBuffer = payload]
        ELSE IF Pushed(st.objects, safeParseJson(Str(joined))) # st.objects
        THEN [objects |-> Pushed(st.objects, safeParseJson(Str(joined))),
              dataBuffer |-> <<>>]
        ELSE [st EXCEPT !.dataBuffer = joined]

RECURSIVE LinesObjects(_, _)
LinesObjects(st, lines) ==
    IF lines = <<>> THEN flushBuffer(st).objects
    ELSE LinesObjects(LineObjects(st, Head(lines)), Tail(lines))

\* a variant of the scan that does not skip the braces inside strings
ScanCharacterCountingAllBraces(st, char) ==
    LET buffer == Append(st.buffer, char)
        depth == IF char = braceOpen THEN st.depth + 1
                 ELSE IF char = braceClose THEN st.depth - 1
                 ELSE st.depth
    IN  IF st.escapeNext THEN [st EXCEPT !.buffer = buffer, !.escapeNext = FALSE]
        ELSE IF char = backslash THEN [st EXCEPT !.buffer = buffer, !.escapeNext = TRUE]
        ELSE IF char = quote THEN [st EXCEPT !.buffer = buffer, !.inString = ~@]
        ELSE IF depth = 0 /\ trim(buffer) # <<>>
        THEN [st EXCEPT !.objects = Pushed(st.objects, safeParseJson(Str(buffer))),
                        !.buffer = <<>>, !.depth = depth]
        ELSE [st EXCEPT !.buffer = buffer, !.depth = depth]

\* the body of the loop over the characters of the third pass
ScanCharacter(st, char) ==
    LET buffer == Append(st.buffer, char)
        depth == IF char = braceOpen THEN st.depth + 1
                 ELSE IF char = braceClose THEN st.depth - 1
                 ELSE st.depth
    IN  IF st.escapeNext THEN [st EXCEPT !.buffer = buffer, !.escapeNext = FALSE]
        ELSE IF char = backslash THEN [st EXCEPT !.buffer = buffer, !.escapeNext = TRUE]
        ELSE IF char = quote THEN [st EXCEPT !.buffer = buffer, !.inString = ~@]
        ELSE IF st.inString THEN [st EXCEPT !.buffer = buffer]
        ELSE IF depth = 0 /\ trim(buffer) # <<>>
        THEN [st EXCEPT !.objects = Pushed(st.objects, safeParseJson(Str(buffer))),
                        !.buffer = <<>>, !.depth = depth]
        ELSE [st EXCEPT !.buffer = buffer, !.depth = depth]

RECURSIVE ScanCharacters(_, _, _)
ScanCharacters(st, p, i) ==
    IF i > Len(p) THEN st.objects
    ELSE ScanCharacters(ScanCharacter(st, p[i]), p, i + 1)

\* splitStreamingResponse(raw): the array of parsed objects
splitStreamingResponse(raw) ==
    LET trimmed == trim(Points(raw))
        segments == SplitFrom(trimmed, 1, 1, TRUE)
        fromSegments == SegmentsObjects(<<>>, segments)
        sseObjects ==
            IF Len(fromSegments) > 0 THEN fromSegments
            ELSE LinesObjects([objects |-> <<>>, dataBuffer |-> <<>>],
                              SplitFrom(trimmed, 1, 1, FALSE))
    IN  IF trimmed = <<>> THEN <<>>
        ELSE IF Len(sseObjects) > 0 THEN sseObjects
        ELSE ScanCharacters([objects |-> <<>>, buffer |-> <<>>, depth |-> 0,
                             inString |-> FALSE, escapeNext |-> FALSE], trimmed, 1)

(***************************************************************************)
(* From the capture of a stream to the viewer: the event strings go to      *)
(* AppendPayloadChunkForLog, the viewer hands the stored full payload to    *)
(* splitStreamingResponse                                                  *)
(***************************************************************************)

\* event strings of a stream whose events are JSON objects
EventStrings ==
    { Str(<<123, 34, 97, 34, 58, 49, 125>>),               \* {"a":1}
      Str(<<32, 123, 34, 97, 34, 58, 49, 125, 10>>),            \* the same with white space around it
      Str(<<123, 34, 98, 34, 58, 34, 125, 34, 125>>),           \* {"b":"}"}: a closing brace in a string
      Str(<<123, 34, 99, 34, 58, 34, 92, 34, 123, 34, 125>>),       \* {"c":"\"{"}: an escaped quote, then an opening brace
      Str(<<123, 34, 100, 34, 58, 123, 34, 101, 34, 58, 50, 125, 125>>),       \* {"d":{"e":2}}: an object in an object
      Str(<<123, 34, 102, 34, 58, 34, 120, 92, 92, 34, 125>>),       \* {"f":"x\\"}: a string that ends with an escaped backslash
      Str(<<123, 125>>),
      doneSentinel }

InitRoundTrip == Init

\* the relay hands an event string of the response stream to the capture
AppendEvent(chunk) ==
    /\ ~agg.done
    /\ CallAppendPayloadChunkForLog(ContextKeyLoggedResponseBody, chunk)

\* the viewer splits the stored response payload into the events it shows
CallSplitStreamingResponse ==
    /\ ~agg.done
    /\ agg' = [events |-> splitStreamingResponse(
                              GetFullPayloadString(ctx, ContextKeyLoggedResponseBodyFull)),
               message |-> None, done |-> TRUE]
    /\ UNCHANGED <<captureVars, binaryVars, retentionVars, gatewayVars, hdr, url, ovr>>

NextRoundTrip ==
    \/ \E chunk \in EventStrings : AppendEvent(chunk)
    \/ CallSplitStreamingResponse

SpecRoundTrip == InitRoundTrip /\ [][NextRoundTrip]_vars

(***************************************************************************)
(* The quota ledger: pre_charge, settle and refund on the quota of one     *)
(* token.  Requests on the token run concurrently; the ledger changes the  *)
(* token's row by an optimistic update (read, then compare and swap, and   *)
(* again from the read when the swap fails), and a settlement is recorded  *)
(* per request id in the same transaction that moves the quota.            *)
(***************************************************************************)

MaxRequests == 2
MaxSettleCalls == 2

RequestIds == 1..MaxRequests
InitialQuotas == {5, 8}
EstimatedCosts == {3, 5}
ActualCosts == {3, 7}

\* a request that has not reached the ledger yet
NewRequest(estimated_cost) ==
    [pc |-> "start", estimated_cost |-> estimated_cost, seen |-> 0, pre_charge |-> 0,
     settlement |-> "none", calls |-> 0, effects |-> 0, credited |-> 0, retries |-> 0]

\* the store's compare and swap of the token's quota
CompareAndSwapBlind(quota, seen, new) == [ok |-> TRUE, quota |-> new]

CompareAndSwap(quota, seen, new) ==
    IF quota = seen THEN [ok |-> TRUE, quota |-> new] ELSE [ok |-> FALSE, quota |-> quota]

\* no settle and no refund has been recorded for the request id
AlwaysUnsettled(settlement) == TRUE

Unsettled(settlement) == settlement = "none"

InitLedger ==
    /\ CaptureIdle /\ BinaryIdle /\ RetentionIdle
    /\ HeaderIdle /\ UrlIdle /\ OverrideIdle /\ AggregateIdle
    /\ dispatch = NoDispatch
    /\ \E quota \in InitialQuotas, costs \in [RequestIds -> EstimatedCosts] :
           ledger = [quota |-> quota,
                     requests |-> [id \in RequestIds |-> NewRequest(costs[id])]]

LedgerFrame == UNCHANGED <<captureVars, binaryVars, retentionVars, hdr, url, ovr, agg, dispatch>>

\* pre_charge, the read of the optimistic update
PreChargeRead(id) ==
    LET request == ledger.requests[id] IN
    /\ request.pc = "start"
    /\ ledger' = [ledger EXCEPT !.requests[id].pc = "swap",
                                !.requests[id].seen = ledger.quota]
    /\ LedgerFrame

\* pre_charge, the decision and the swap: insufficient_funds when the quota
\* read is below the estimated cost, ok when the swap goes through, and from
\* the read again when another request has changed the quota in between
PreChargeSwap(id) ==
    LET request == ledger.requests[id]
        swap == CompareAndSwap(ledger.quota, request.seen,
                               request.seen - request.estimated_cost)
    IN  /\ request.pc = "swap"
        /\ IF request.seen < request.estimated_cost
           THEN ledger' = [ledger EXCEPT !.requests[id].pc = "insufficient_funds"]
           ELSE IF swap.ok
           THEN ledger' = [ledger EXCEPT !.quota = swap.quota,
                                         !.requests[id].pc = "running",
                                         !.requests[id].pre_charge = request.estimated_cost]
           ELSE ledger' = [ledger EXCEPT !.requests[id].pc = "start",
                                         !.requests[id].retries = @ + 1]
        /\ LedgerFrame

\* what one call of settle or refund does with the quota change it asks for
Apply(id, delta, settlement) ==
    LET request == ledger.requests[id]
        quota == IF Unsettled(request.settlement) THEN ledger.quota + delta ELSE ledger.quota
    IN  /\ request.pc = "running"
        /\ request.calls < MaxSettleCalls
        /\ ledger' = [ledger EXCEPT
               !.quota = quota,
               !.requests[id].settlement = IF request.settlement = "none" THEN settlement ELSE @,
               !.requests[id].calls = @ + 1,
               !.requests[id].effects = IF quota # ledger.quota THEN @ + 1 ELSE @,
               !.requests[id].credited = @ + (quota - ledger.quota)]
        /\ LedgerFrame

\* settle: gives back pre_charge - actual_cost, or debits the shortfall
Settle(id, actual_cost) ==
    Apply(id, ledger.requests[id].pre_charge - actual_cost, "settled")

\* refund: gives back the pre_charge in full
Refund(id) == Apply(id, ledger.requests[id].pre_charge, "refunded")

NextLedger ==
    \/ \E id \in RequestIds : PreChargeRead(id)
    \/ \E id \in RequestIds : PreChargeSwap(id)
    \/ \E id \in RequestIds, actual_cost \in ActualCosts : Settle(id, actual_cost)
    \/ \E id \in RequestIds : Refund(id)

SpecLedger == InitLedger /\ [][NextLedger]_vars

(***************************************************************************)
(* The dispatcher's retry loop for one request:                            *)
(*   tried <- {} ; for attempt in 1..MAX_RETRIES:                          *)
(*     C <- select(candidates \ tried); if C is none: break                *)
(*     r <- try(C); if r.ok: return r                                      *)
(*     tried <- tried + {C}; classify(r.error) ...                         *)
(*   return LAST_ERROR (or NO_CHANNEL if the candidate set is exhausted)   *)
(* The choice among the untried candidates (priority, then weight) is any  *)
(* of them.                                                                *)
(***************************************************************************)

MAX_RETRIES == 2
MaxChannels == 3

Channels == 1..MaxChannels
Outcomes == {"ok", "retryable_now", "retryable_with_cooldown", "fatal_for_channel",
             "fatal_for_request"}

\* the channels select may return
AllCandidates(candidates, tried) == candidates

Untried(candidates, tried) == candidates \ tried

InitDispatch ==
    /\ CaptureIdle /\ BinaryIdle /\ RetentionIdle
    /\ HeaderIdle /\ UrlIdle /\ OverrideIdle /\ AggregateIdle
    /\ ledger = NoLedger
    /\ \E candidates \in SUBSET Channels, autoDisable \in BOOLEAN :
           dispatch = [NoDispatch EXCEPT !.candidates = candidates, !.attempt = 1,
                                         !.pc = "select", !.autoDisable = autoDisable]

DispatchFrame == UNCHANGED <<captureVars, binaryVars, retentionVars, hdr, url, ovr, agg, ledger>>

\* the head of the loop and select: a candidate not tried yet is chosen
Select(C) ==
    /\ dispatch.pc = "select"
    /\ dispatch.attempt <= MAX_RETRIES
    /\ C \in Untried(dispatch.candidates, dispatch.tried)
    /\ dispatch' = [dispatch EXCEPT !.pc = "try", !.chosen = C,
                                    !.attempts = Append(@, C)]
    /\ DispatchFrame

\* select finds no candidate: break, NO_CHANNEL
SelectNone ==
    /\ dispatch.pc = "select"
    /\ dispatch.attempt <= MAX_RETRIES
    /\ Untried(dispatch.candidates, dispatch.tried) = {}
    /\ dispatch' = [dispatch EXCEPT !.pc = "done", !.result = "NO_CHANNEL"]
    /\ DispatchFrame

\* the loop has run MAX_RETRIES times: LAST_ERROR
LoopEnds ==
    /\ dispatch.pc = "select"
    /\ dispatch.attempt > MAX_RETRIES
    /\ dispatch' = [dispatch EXCEPT !.pc = "done", !.result = "LAST_ERROR"]
    /\ DispatchFrame

\* try(C) comes back and its error is classified
Try(outcome) ==
    LET C == dispatch.chosen
        stops == outcome \in {"ok", "fatal_for_request"}
    IN  /\ dispatch.pc = "try"
        /\ dispatch' = [dispatch EXCEPT
               !.outcomes = Append(@, outcome),
               !.tried = IF outcome = "ok" THEN @ ELSE @ \cup {C},
               !.cooldown = IF outcome = "retryable_with_cooldown" THEN @ \cup {C} ELSE @,
               !.disabled = IF outcome = "fatal_for_channel" /\ dispatch.autoDisable
                            THEN @ \cup {C} ELSE @,
               !.attempt = IF stops THEN @ ELSE @ + 1,
               !.pc = IF stops THEN "done" ELSE "select",
               !.result = IF stops THEN outcome ELSE @]
        /\ DispatchFrame

\* the request's deadline passes: no new attempt starts, the attempt in
\* flight is cancelled
DeadlineExceeded ==
    /\ dispatch.pc \in {"select", "try"}
    /\ dispatch' = [dispatch EXCEPT
           !.pc = "done", !.result = "deadline",
           !.outcomes = IF dispatch.pc = "try" THEN Append(@, "cancelled") ELSE @]
    /\ DispatchFrame

NextDispatch ==
    \/ \E C \in Channels : Select(C)
    \/ SelectNone
    \/ LoopEnds
    \/ \E outcome \in Outcomes : Try(outcome)
    \/ DeadlineExceeded

SpecDispatch == InitDispatch /\ [][NextDispatch]_vars

(***************************************************************************)
(* Properties of the payload capture                                       *)
(***************************************************************************)

\* the text "… [truncated N chars]" for N = n
TruncationNote(n) == Cat(Cat(truncatedSuffixHead, Itoa(n)), truncatedSuffixTail)

\* code points of "… [truncated N chars]" when N has d digits
NoteLength(d) == RuneCount(truncatedSuffixHead) + d + RuneCount(truncatedSuffixTail)

\* s ends with "… [truncated N chars]" for some N of d digits
EndsWithNote(s, d) ==
    LET tail == Drop(s, RuneCount(s) - NoteLength(d))
        digits == Take(Drop(tail, RuneCount(truncatedSuffixHead)), d)
    IN  /\ RuneCount(s) >= NoteLength(d)
        /\ HasPrefix(tail, truncatedSuffixHead)
        /\ HasSuffix(tail, truncatedSuffixTail)
        /\ \A i \in 1..Len(digits) : IsDigit(digits[i].r)

\* s ends with "… [truncated N chars]" for some N (an int has at most 19 digits)
EndsWithSomeNote(s) == \E d \in 1..19 : EndsWithNote(s, d)

Preview(key) == GetString(ctx, key)
FullKey(key) == fullPayloadKeyFor(key).key

\* C1: every stored preview has at most 2048 code points plus the length of the
\* truncation suffix, and the preview of a payload of more than 2048 code points
\* (a truncated one) ends with "… [truncated N chars]".
C1_PreviewBoundedAndMarked ==
    \A key \in PreviewKeys :
        /\ \/ RuneCount(Preview(key)) <= maxLogPayloadRunes
           \/ \E d \in 1..19 : /\ EndsWithNote(Preview(key), d)
                               /\ RuneCount(Preview(key)) <= maxLogPayloadRunes + NoteLength(d)
        /\ payloadLen[key] > maxLogPayloadRunes => EndsWithSomeNote(Preview(key))

\* the chunks as passed, joined in order, without the "[DONE]" events
RECURSIVE ConcatAsSent(_)
ConcatAsSent(chunks) ==
    IF chunks = <<>> THEN <<>>
    ELSE Cat(IF TrimSpace(Head(chunks)) = doneSentinel THEN <<>> ELSE Head(chunks),
             ConcatAsSent(Tail(chunks)))

\* the chunks with their outer white space cut, joined in order, without the "[DONE]" events
RECURSIVE ConcatTrimmed(_)
ConcatTrimmed(chunks) ==
    IF chunks = <<>> THEN <<>>
    ELSE Cat(IF TrimSpace(Head(chunks)) = doneSentinel THEN <<>> ELSE TrimSpace(Head(chunks)),
             ConcatTrimmed(Tail(chunks)))

\* C2 as claimed: after only AppendPayloadChunkForLog calls on a direction,
\* GetFullPayloadString returns the chunks exactly as passed, joined in order,
\* leaving out only "[DONE]".
C2_FullPayloadExactlyAsSent ==
    \A key \in PreviewKeys :
        appendOnly[key] => GetFullPayloadString(ctx, FullKey(key)) = ConcatAsSent(sent[key])

\* C2 as amended: after only AppendPayloadChunkForLog calls on a direction,
\* GetFullPayloadString returns the chunks joined in order, each with its leading
\* and trailing white space cut, leaving out the empty ones and "[DONE]".
C2_FullPayloadIsTrimmedChunks ==
    \A key \in PreviewKeys :
        appendOnly[key] => GetFullPayloadString(ctx, FullKey(key)) = ConcatTrimmed(sent[key])

\* three chunks went to one direction, among them "[DONE]" and one with white space around it
C2_Witness ==
    \E key \in PreviewKeys :
        /\ appendOnly[key] /\ Len(sent[key]) >= 3
        /\ \E i \in 1..Len(sent[key]) : TrimSpace(sent[key][i]) = doneSentinel
        /\ \E i \in 1..Len(sent[key]) :
               /\ TrimSpace(sent[key][i]) # sent[key][i]
               /\ TrimSpace(sent[key][i]) \notin {<<>>, doneSentinel}
        /\ ctx[FullKey(key)].kind = "strings" /\ Len(ctx[FullKey(key)].segments) >= 2

\* the chunk is an event the capture keeps
Kept(chunk) == TrimSpace(chunk) \notin {<<>>, doneSentinel}

\* C4: once the preview has been truncated, every later AppendPayloadChunkForLog
\* with a non-empty, non-"[DONE]" chunk leaves the preview as it is and appends
\* the chunk to the full payload.
C4_TruncatedPreviewStaysFullPayloadGrows ==
    [][\A key \in PreviewKeys, chunk \in Chunks :
          (cut[key] /\ Kept(chunk) /\ CallAppendPayloadChunkForLog(key, chunk))
          => /\ Preview(key)' = Preview(key)
             /\ ctx[FullKey(key)].kind = "strings"
             /\ ctx'[FullKey(key)] =
                    StringsValue(Append(ctx[FullKey(key)].segments, TrimSpace(chunk)))]_vars

\* a chunk was appended after the preview had been cut
C4_Witness ==
    \E key \in PreviewKeys :
        /\ cut[key] /\ payloadLen[key] > lenAtCut[key]
        /\ EndsWithSomeNote(Preview(key))
        /\ Len(ctx[FullKey(key)].segments) >= 2

C6_ChunkAppendedWhenRoom ==
    [][\A key \in PreviewKeys, chunk \in Chunks :
          CallAppendPayloadChunkForLog(key, chunk)
          => IF ~Kept(chunk) THEN ctx' = ctx
             ELSE (~cut[key] /\ RuneCount(Preview(key)) + RuneCount(TrimSpace(chunk))
                                    <= maxLogPayloadRunes)
                  => Preview(key)' = Cat(Preview(key), TrimSpace(chunk))]_vars

\* "[binary payload omitted: N bytes]" for a payload of n bytes
BinaryNote(n) == Cat(Cat(binaryOmittedHead, Itoa(n)), binaryOmittedTail)

\* control bytes below 0x20 other than tab, newline and carriage return among d[1..n]
ControlBytes(d, n) == Cardinality({i \in 1..n : d[i] < 32 /\ d[i] \notin {9, 10, 13}})

\* binary as the specification words it
ClaimedBinary(d) ==
    LET n == IF Len(d) < 256 THEN Len(d) ELSE 256
    IN  Len(d) > 0 /\ (~utf8Valid(d) \/ 10 * ControlBytes(d, n) > n)

\* C7: isBinaryPayload(data) is true exactly when data is non-empty and either
\* fails UTF-8 validation or more than 10% of its first 256 bytes (of all its
\* bytes when shorter) are control characters other than \n, \r and \t.
C7_BinaryExactlyWhenClaimed == binary.done => (binary.result <=> ClaimedBinary(data))

\* a payload longer than 256 bytes, valid UTF-8, was judged; one binary, one not
C7_Witness ==
    /\ binary.done /\ binary.result
    /\ utf8Valid(data) /\ Len(data) > 256
    /\ 10 * ControlBytes(data, Len(data)) > Len(data)

\* C8 as claimed: after CapturePayloadForLog of a binary payload the preview under
\* the key is "[binary payload omitted: N bytes]", N the byte length, and no full
\* payload is stored for the direction.
C8_BinaryPlaceholderAlways ==
    [][\A key \in PreviewKeys, bytes \in Datas :
          (ClaimedBinary(bytes) /\ CallCapturePayloadForLog(key, bytes))
          => /\ Preview(key)' = BinaryNote(Len(bytes))
             /\ ctx'[FullKey(key)] = NoValue]_vars

\* C8 as amended: CapturePayloadForLog of a binary payload under a key that holds
\* no preview yet makes the preview "[binary payload omitted: N bytes]", N the
\* byte length; whatever the key held, the call stores no full payload: the full
\* payload of the direction stays as it was.
C8_BinaryPlaceholderWhenFresh ==
    [][\A key \in PreviewKeys, bytes \in Datas :
          (ClaimedBinary(bytes) /\ CallCapturePayloadForLog(key, bytes))
          => /\ Preview(key) = <<>> => Preview(key)' = BinaryNote(Len(bytes))
             /\ ctx'[FullKey(key)] = ctx[FullKey(key)]]_vars

\* a binary payload was captured first: placeholder stored, no full payload
C8_Witness ==
    \E key \in PreviewKeys, bytes \in Datas :
        /\ ClaimedBinary(bytes)
        /\ Preview(key) = BinaryNote(Len(bytes))
        /\ ctx[FullKey(key)] = NoValue

\* C9: CapturePayloadForLog and CapturePayloadStringForLog leave a non-empty
\* preview as it is, and a call with empty data changes nothing.
C9_CaptureKeepsFirstPreview ==
    [][\A key \in PreviewKeys :
          /\ \A bytes \in Datas :
                CallCapturePayloadForLog(key, bytes)
                => /\ Preview(key) # <<>> => Preview(key)' = Preview(key)
                   /\ bytes = <<>> => ctx' = ctx
          /\ \A value \in Values :
                CallCapturePayloadStringForLog(key, value)
                => /\ Preview(key) # <<>> => Preview(key)' = Preview(key)
                   /\ value = <<>> => ctx' = ctx]_vars

\* a second capture came after the first: the preview is the first body, the full
\* payload the second
C9_Witness ==
    \E key \in PreviewKeys :
        /\ Preview(key) # <<>>
        /\ ctx[FullKey(key)].kind = "strings"
        /\ Len(ctx[FullKey(key)].segments) = 1
        /\ RuneCount(ctx[FullKey(key)].segments[1]) > maxLogPayloadRunes
        /\ RuneCount(Preview(key)) < maxLogPayloadRunes

\* p is "[binary payload omitted: N bytes]" for some N
IsBinaryPlaceholder(p) ==
    /\ HasPrefix(p, binaryOmittedHead)
    /\ HasSuffix(p, binaryOmittedTail)
    /\ LET digits == Take(Drop(p, RuneCount(binaryOmittedHead)),
                          RuneCount(p) - RuneCount(binaryOmittedHead)
                                       - RuneCount(binaryOmittedTail))
       IN  digits # <<>> /\ \A i \in 1..Len(digits) : IsDigit(digits[i].r)

\* C28: the preview and the full payload of a direction describe the same
\* payload: a preview that ends with a truncation note has its first 2048 code
\* points at the start of the full payload, and any other preview is the binary
\* placeholder or equals the full payload
C28_PreviewAndFullDescribeSamePayload ==
    \A key \in PreviewKeys :
        LET preview == Preview(key)
            full == GetFullPayloadString(ctx, FullKey(key))
        IN  IF EndsWithSomeNote(preview)
            THEN HasPrefix(full, Take(preview, maxLogPayloadRunes))
            ELSE IsBinaryPlaceholder(preview) \/ preview = full

(***************************************************************************)
(* Properties of the retention cleaner                                     *)
(***************************************************************************)

\* the sweep that returned in the last step ended because a batch deleted fewer
\* rows than the batch size: no database error, no cancellation, retention enabled
SweepCompleted == sweep.fresh /\ sweep.outcome = "complete"

DeletedStamps ==
    {t \in DOMAIN logDetails : t \notin DOMAIN logDetails' \/ logDetails'[t] < logDetails[t]}

BatchStep == pc = "delete" /\ sweep'.batches = sweep.batches + 1

C24_OnlyRowsBeforeCutoffDeleted ==
    [][DeletedStamps # {} =>
          /\ pc = "delete"
          /\ DetailedLogRetentionDays > 0
          /\ cutoff = sweep.startedAt - DetailedLogRetentionDays * secondsPerDay
          /\ \A t \in DeletedStamps : t < cutoff
          /\ \A t \in DOMAIN logDetails :
                t >= cutoff => t \in DOMAIN logDetails' /\ logDetails'[t] >= logDetails[t]]_vars

\* a sweep has deleted rows and returned, and a row whose created_at is the
\* cutoff itself is still in the table
C24_Witness ==
    /\ sweep.fresh /\ sweep.batches >= 1
    /\ totalDeleted > 0
    /\ cutoff \in DOMAIN logDetails

\* the cleanup goroutine is inside pruneExpiredLogDetails
InSweep == pc \in {"prune", "loopTop", "delete", "sleep"}

\* C25: every sweep that starts returns; an iteration of its loop either ends
\* the sweep or has deleted exactly 5000 rows, all older than the cutoff, and the
\* cutoff stays what it was set to when the sweep started, whatever the requests
\* insert in between
C25_EverySweepTerminates ==
    /\ InSweep ~> pc = "waitTick"
    /\ [][/\ (pc = "delete" /\ pc' # "delete") =>
                (\/ pc' = "waitTick"
                 \/ /\ pc' = "sleep"
                    /\ RowCount(logDetails) - RowCount(logDetails') = logDetailCleanupBatchSize
                    /\ \A t \in DeletedStamps : t < cutoff)
          /\ (pc \in {"loopTop", "delete", "sleep"} /\ InSweep') => (cutoff' = cutoff)]_vars

\* a sweep of two full batches and a last smaller one has returned, and a request
\* wrote a row while it ran
C25_Witness ==
    /\ pc = "waitTick" /\ sweep.outcome = "complete"
    /\ sweep.batches >= 2
    /\ inserts >= 1
    /\ now \in DOMAIN logDetails

\* the step is a delete statement that left expired rows where they were: the
\* database answered with an error
ErrorStep ==
    /\ pc = "delete" /\ pc' # "delete"
    /\ Expired(logDetails, cutoff) # {}
    /\ logDetails' = logDetails

\* C26: a delete batch that fails ends the sweep at once, with the table as the
\* earlier batches left it and the expired rows that remain in place; no step
\* deletes a row before the next sweep starts; the loop then waits on its ticker,
\* and when the tick is due the next sweep can start
C26_ErrorEndsSweepLoopGoesOn ==
    /\ [][/\ ErrorStep =>
               /\ pc' = "waitTick" /\ sweep'.outcome = "error"
               /\ totalDeleted' = totalDeleted /\ sweep'.batches = sweep.batches
               /\ Expired(logDetails', cutoff') = Expired(logDetails, cutoff)
          /\ sweep.outcome = "error" => DeletedStamps = {}
          /\ sweep.outcome = "error" => pc \in {"waitTick", "prune"}
          /\ (sweep.outcome = "error" /\ pc = "waitTick" /\ pc' # pc) => pc' = "prune"]_vars
    /\ [](sweep.outcome = "error" /\ pc = "waitTick" /\ now >= nextTick => ENABLED TickerFires)

\* the second batch of a sweep failed, expired rows are left, and the tick that
\* came after has sent the loop into its next sweep
C26_Witness ==
    /\ pc = "prune"
    /\ sweep.outcome = "error" /\ sweep.batches = 1
    /\ Expired(logDetails, cutoff) # {}

\* the step starts a sweep
SweepStarts == pc' = "prune" /\ pc # "prune"

\* C27: whatever the number of calls of StartLogDetailRetentionCleaner, no more
\* than one cleanup goroutine is started; its first sweep starts with the
\* goroutine, and every later sweep starts on a tick of the ticker, which is made
\* when the first sweep returns and ticks every six hours from then
C27_OneLoopSweepsOnTicks ==
    [][/\ starts'.loops <= 1
       /\ SweepStarts =>
             \/ pc = "notStarted" /\ starts.loops = 0 /\ starts'.loops = 1
             \/ /\ pc = "waitTick" /\ starts.loops = 1
                /\ nextTick > 0 /\ now >= nextTick
                /\ nextTick' = nextTick + logDetailCleanupInterval
       /\ starts'.loops > starts.loops => SweepStarts
       /\ nextTick' # nextTick =>
             \/ nextTick = 0 /\ pc' = "waitTick" /\ nextTick' = now + logDetailCleanupInterval
             \/ nextTick > 0 /\ SweepStarts]_vars

\* StartLogDetailRetentionCleaner was called more than once, one goroutine runs,
\* and a tick has sent it into its second sweep
C27_Witness ==
    /\ starts.calls >= 2 /\ starts.loops = 1
    /\ pc = "prune"
    /\ nextTick = StartTime + 2 * logDetailCleanupInterval

(***************************************************************************)
(* Properties of the header filter                                         *)
(***************************************************************************)

\* the two names are equal when case is ignored
EqualFold(a, b) == ToLower(a) = ToLower(b)

\* the names the claim lists
ClaimedDenyNames ==
    {Str(<<65, 117, 116, 104, 111, 114, 105, 122, 97, 116, 105, 111, 110>>),   \* Authorization
     Str(<<67, 111, 111, 107, 105, 101>>),   \* Cookie
     Str(<<97, 112, 105, 45, 107, 101, 121>>),   \* api-key
     Str(<<120, 45, 97, 112, 105, 45, 107, 101, 121>>),   \* x-api-key
     Str(<<67, 111, 110, 110, 101, 99, 116, 105, 111, 110>>),   \* Connection
     Str(<<75, 101, 101, 112, 45, 65, 108, 105, 118, 101>>),   \* Keep-Alive
     Str(<<80, 114, 111, 120, 121, 45, 65, 117, 116, 104, 101, 110, 116, 105, 99, 97, 116, 101>>),   \* Proxy-Authenticate
     Str(<<80, 114, 111, 120, 121, 45, 65, 117, 116, 104, 111, 114, 105, 122, 97, 116, 105, 111, 110>>),   \* Proxy-Authorization
     Str(<<84, 101>>),   \* Te
     Str(<<84, 114, 97, 105, 108, 101, 114>>),   \* Trailer
     Str(<<84, 114, 97, 110, 115, 102, 101, 114, 45, 69, 110, 99, 111, 100, 105, 110, 103>>),   \* Transfer-Encoding
     Str(<<85, 112, 103, 114, 97, 100, 101>>),   \* Upgrade
     Str(<<80, 114, 111, 120, 121, 45, 67, 111, 110, 110, 101, 99, 116, 105, 111, 110>>),   \* Proxy-Connection
     Str(<<72, 111, 115, 116>>),   \* Host
     Str(<<67, 111, 110, 116, 101, 110, 116, 45, 76, 101, 110, 103, 116, 104>>)   \* Content-Length
    }

\* the name is denied as the claim words it
ClaimedDenied(k, src, extra) ==
    \/ \E d \in ClaimedDenyNames : EqualFold(k, d)
    \/ \E i \in 1..Len(extra) : EqualFold(k, extra[i])
    \/ /\ nameConnection \in DOMAIN src
       /\ \E v \in 1..Len(src[nameConnection]) :
              \E t \in 1..Len(SplitOn(src[nameConnection][v], comma)) :
                  EqualFold(k, TrimSpace(SplitOn(src[nameConnection][v], comma)[t]))

\* C12: after copyHeadersExcept(dst, src, buildPassThroughHeaderDenySet(src, extra))
\* dst holds exactly the headers of src that are not denied, each with all its
\* values in order; denied, case ignored, are the listed names, the trimmed
\* tokens of the inbound Connection header and the names of the extra list.
C12_OnlyUndeniedHeadersCopied ==
    hdr.done =>
        /\ DOMAIN hdr.dst = {k \in DOMAIN hdr.src : ~ClaimedDenied(k, hdr.src, hdr.extra)}
        /\ \A k \in DOMAIN hdr.dst : hdr.dst[k] = hdr.src[k]

\* a request whose Connection header names a header it carries, with a header of
\* two values and a header the extra list denies: the first and the last are
\* dropped, the second is copied with both values
C12_Witness ==
    /\ hdr.done
    /\ nameConnection \in DOMAIN hdr.src
    /\ \E k \in DOMAIN hdr.src \ DOMAIN hdr.dst :
           /\ \A d \in ClaimedDenyNames : ~EqualFold(k, d)
           /\ \A i \in 1..Len(hdr.extra) : ~EqualFold(k, hdr.extra[i])
    /\ \E k \in DOMAIN hdr.src \ DOMAIN hdr.dst : \E i \in 1..Len(hdr.extra) : EqualFold(k, hdr.extra[i])
    /\ \E k \in DOMAIN hdr.dst : Len(hdr.dst[k]) = 2

(***************************************************************************)
(* Properties of the URL composition                                       *)
(***************************************************************************)

\* the number of code points r in s
CountRune(s, r) == Len(SplitOn(s, r)) - 1

\* the base URL scheme://host has no path, or only "/"
ClaimedNoPath(u) ==
    \/ CountRune(u, slash) = 2
    \/ CountRune(u, slash) = 3 /\ u[Len(u)].r = slash

\* the base URL without the slash it may end with
WithoutFinalSlash(u) ==
    IF u[Len(u)].r # slash THEN u
    ELSE IF u[Len(u)].n > 1
    THEN [u EXCEPT ![Len(u)] = [r |-> slash, n |-> u[Len(u)].n - 1]]
    ELSE SubSeq(u, 1, Len(u) - 1)

ClientHeaderTemplate(name) == Cat(Cat(clientHeaderOpen, name), clientHeaderClose)

\* C14: for a request that is not a channel test, an override "{client_header:H}"
\* comes back under the override's header name with the value of header H of the
\* inbound request, and no error is returned.
C14_LiveRequestResolvesClientHeader ==
    (ovr.done /\ ~ovr.IsChannelTest) =>
        /\ ~ovr.err
        /\ \A name \in DOMAIN ovr.HeadersOverride : \A k \in DOMAIN ovr.inbound :
               ovr.HeadersOverride[name] \in {ClientHeaderTemplate(k),
                                              ClientHeaderTemplate(ToLower(k))}
               => /\ name \in DOMAIN ovr.headers
                  /\ ovr.headers[name] = ovr.inbound[k][1]

\* a live request with X-Trace-Id and the override X-Upstream-Trace that names it
C14_Witness ==
    /\ ovr.done /\ ~ovr.IsChannelTest
    /\ \E name \in DOMAIN ovr.headers : \E k \in DOMAIN ovr.inbound :
           /\ name # k
           /\ ovr.HeadersOverride[name] = ClientHeaderTemplate(k)
           /\ ovr.headers[name] = ovr.inbound[k][1] /\ ovr.headers[name] # <<>>

\* C15: for a channel test processHeaderOverride returns no error and no header
\* made from the inbound request: a client-header placeholder yields no entry
\* under its name, the pass-through rule alone yields an empty map, and every
\* entry returned is the literal text of an override.
C15_ChannelTestUsesNoClientHeader ==
    (ovr.done /\ ovr.IsChannelTest) =>
        /\ ~ovr.err
        /\ \A name \in DOMAIN ovr.HeadersOverride :
               Contains(ovr.HeadersOverride[name], clientHeaderOpen)
               => name \notin DOMAIN ovr.headers
        /\ DOMAIN ovr.HeadersOverride = {passThroughRule} => DOMAIN ovr.headers = {}
        /\ \A name \in DOMAIN ovr.headers :
               /\ name \in DOMAIN ovr.HeadersOverride \ {passThroughRule}
               /\ ovr.headers[name] = ovr.HeadersOverride[name]

\* a channel test whose inbound request has headers, with the pass-through rule,
\* a placeholder and a literal override: only the literal comes back
C15_Witness ==
    /\ ovr.done /\ ovr.IsChannelTest
    /\ DOMAIN ovr.inbound # {}
    /\ passThroughRule \in DOMAIN ovr.HeadersOverride
    /\ \E name \in DOMAIN ovr.HeadersOverride :
           IsClientHeaderPlaceholder(ovr.HeadersOverride[name])
    /\ Cardinality(DOMAIN ovr.headers) = 1


(***************************************************************************)
(* Properties of the stream aggregators                                    *)
(***************************************************************************)

\* choices[0].delta of the chunks that have one, in order
ChoiceDeltas(chunks) ==
    LET HasDelta(chunk) == chunk.choices # <<>> /\ chunk.choices[1].delta.some
        kept == SelectSeq(chunks, HasDelta)
    IN  [i \in 1..Len(kept) |-> kept[i].choices[1].delta.v]

\* the strings choices[0].delta.content of the chunks, joined in order
StreamedContent(chunks) ==
    LET deltas == ChoiceDeltas(chunks)
    IN  Join([i \in 1..Len(deltas) |-> OrEmpty(deltas[i].content)])

\* the tool call deltas of the chunks in arrival order, each with the index it
\* names, or its position in its delta when it names none
IndexedToolDeltas(chunks) ==
    LET deltas == ChoiceDeltas(chunks)
        Of(delta) ==
            IF ~delta.tool_calls.some THEN <<>>
            ELSE [k \in 1..Len(delta.tool_calls.v) |->
                     [index |-> IF delta.tool_calls.v[k].index.some
                                THEN delta.tool_calls.v[k].index.v ELSE k - 1,
                      delta |-> delta.tool_calls.v[k]]]
    IN  Flatten([i \in 1..Len(deltas) |-> Of(deltas[i])])

ToolDeltasAt(chunks, index) ==
    LET At(e) == e.index = index
        kept == SelectSeq(IndexedToolDeltas(chunks), At)
    IN  [i \in 1..Len(kept) |-> kept[i].delta]

\* the last non-empty string among the properties, or otherwise
RECURSIVE LastTruthy(_, _)
LastTruthy(properties, otherwise) ==
    IF properties = <<>> THEN otherwise
    ELSE IF Truthy(properties[Len(properties)]) THEN properties[Len(properties)]
    ELSE LastTruthy(SubSeq(properties, 1, Len(properties) - 1), otherwise)

\* the tool calls of the message are those of the deltas, by index: id and name
\* the last non-empty ones sent for the index, arguments the fragments sent for
\* it joined in arrival order
ToolCallsAccumulatedByIndex(message, chunks) ==
    LET all == IndexedToolDeltas(chunks)
        indices == {all[i].index : i \in 1..Len(all)}
    IN  /\ message.tool_calls.some <=> indices # {}
        /\ message.tool_calls.some =>
              /\ DOMAIN message.tool_calls.v = indices
              /\ \A index \in indices :
                    LET fragments == ToolDeltasAt(chunks, index)
                        call == message.tool_calls.v[index]
                    IN  /\ call.arguments =
                              Join([i \in 1..Len(fragments) |->
                                       OrEmpty(fragments[i].arguments)])
                        /\ call.id =
                              LastTruthy([i \in 1..Len(fragments) |-> fragments[i].id],
                                         fragments[1].id)
                        /\ Some(call.name) =
                              LastTruthy([i \in 1..Len(fragments) |-> fragments[i].name],
                                         Some(<<>>))

\* C16 as stated: for every list of chunks aggregateOpenAIStreamChunks returns a
\* message whose content is the in-order concatenation of choices[0].delta.content
\* of all chunks and whose tool calls are accumulated by index, id and name merged
\* and the arguments the index's fragments joined in arrival order
C16_EveryListYieldsConcatenatedMessage ==
    agg.done =>
        /\ agg.message.some
        /\ agg.message.v.content = Some(StreamedContent(agg.events))
        /\ ToolCallsAccumulatedByIndex(agg.message.v, agg.events)

\* C16, amended: for every non-empty list of chunks aggregateOpenAIStreamChunks
\* returns a message; its content is the in-order concatenation of
\* choices[0].delta.content of all chunks when that is not empty and is absent
\* when it is empty; its tool calls are accumulated by index, id and name the
\* last non-empty ones sent for the index and the arguments the index's
\* fragments joined in arrival order.  For the empty list it returns null.
C16_NonEmptyListYieldsConcatenatedMessage ==
    agg.done =>
        IF agg.events = <<>> THEN ~agg.message.some
        ELSE /\ agg.message.some
             /\ agg.message.v.content =
                   (IF StreamedContent(agg.events) = <<>> THEN None
                    ELSE Some(StreamedContent(agg.events)))
             /\ ToolCallsAccumulatedByIndex(agg.message.v, agg.events)

\* a message with text and a tool call whose arguments came in two fragments
C16_Witness ==
    /\ agg.done
    /\ agg.message.some
    /\ agg.message.v.content.some
    /\ agg.message.v.tool_calls.some
    /\ \E index \in DOMAIN agg.message.v.tool_calls.v :
          LET fragments == ToolDeltasAt(agg.events, index)
          IN  /\ Len(fragments) = 2
              /\ \A i \in 1..2 : Truthy(fragments[i].arguments)
              /\ fragments[1].arguments # fragments[2].arguments


\* the content blocks of the message, none when it has no content
ContentOf(message) == IF message.content.some THEN message.content.v ELSE <<>>

\* the text of the text blocks of the message, in the order of the blocks
AggregatedText(message) ==
    LET IsText(entry) == entry.type = "text"
        texts == SelectSeq(ContentOf(message), IsText)
    IN  Join([i \in 1..Len(texts) |-> texts[i].text])

\* the fragments of the content_block_delta events of the kind for the blocks at
\* the indices, in arrival order
DeltaFragments(events, kind, indices) ==
    LET Is(event) == /\ event.type = "content_block_delta"
                     /\ event.delta.type = kind
                     /\ event.index.v \in indices
        kept == SelectSeq(events, Is)
    IN  [i \in 1..Len(kept) |->
            IF kind = "text_delta" THEN OrEmpty(kept[i].delta.text)
            ELSE OrEmpty(kept[i].delta.partial_json)]

AllIndices == 0..MaxBlocks

\* C17: the text aggregateClaudeStreamEvents aggregates from an Anthropic
\* message stream is the concatenation of the text_delta.text strings of all
\* content_block_delta events of the stream
C17_TextIsAllTextDeltasConcatenated ==
    agg.done =>
        /\ agg.message.some
        /\ AggregatedText(agg.message.v) =
              Join(DeltaFragments(agg.events, "text_delta", AllIndices))

\* a message of two text blocks whose deltas carried at least three fragments
\* that are not empty
C17_Witness ==
    /\ agg.done
    /\ agg.message.some
    /\ Cardinality({i \in 1..Len(ContentOf(agg.message.v)) :
                       ContentOf(agg.message.v)[i].type = "text"}) >= 2
    /\ LET fragments == DeltaFragments(agg.events, "text_delta", AllIndices)
       IN  Cardinality({i \in 1..Len(fragments) : fragments[i] # <<>>}) >= 3

\* the indices of the tool_use blocks of the stream that were stopped
StoppedToolUseBlocks(events) ==
    {index \in AllIndices :
        /\ \E i \in 1..Len(events) :
              /\ events[i].type = "content_block_start"
              /\ events[i].index.v = index
              /\ events[i].content_block.type = Some("tool_use")
        /\ \E i \in 1..Len(events) :
              events[i].type = "content_block_stop" /\ events[i].index.v = index}

\* C18: the input of an aggregated tool_use block whose content_block_stop was
\* seen is the JSON value that the block's input_json_delta fragments, joined
\* in arrival order, parse to; with no fragment text it is the input the block
\* started with
C18_ToolInputIsParseOfJoinedFragments ==
    agg.done =>
        \A index \in StoppedToolUseBlocks(agg.events) :
            LET entry == ContentOf(agg.message.v)[index + 1]
                joined == Join(DeltaFragments(agg.events, "input_json_delta", {index}))
            IN  /\ entry.type = "tool_use"
                /\ IF joined = <<>> THEN entry.input = Some(JSONObject(<<>>))
                   ELSE /\ safeParseJson(joined).some
                        /\ entry.input = safeParseJson(joined)
                        /\ entry.input.v.kind = "object"

\* a stopped tool_use block whose input came in several fragments, none of them
\* a JSON text by itself, and was parsed to an object with members
C18_Witness ==
    /\ agg.done
    /\ \E index \in StoppedToolUseBlocks(agg.events) :
          LET fragments == DeltaFragments(agg.events, "input_json_delta", {index})
              entry == ContentOf(agg.message.v)[index + 1]
          IN  /\ Len(fragments) >= 2
              /\ \A i \in 1..Len(fragments) : ~safeParseJson(fragments[i]).some
              /\ entry.input.some
              /\ entry.input.v.kind = "object"
              /\ Len(entry.input.v.members) >= 1


\* the events of the types whose output_index is outputIndex
EventsAt(events, types, outputIndex) ==
    LET Is(event) == event.type \in types /\ event.output_index = Some(outputIndex)
    IN  SelectSeq(events, Is)

\* the slots <<output_index, content_index>> the text events of the stream name
TextSlots(events) ==
    {<<events[i].output_index.v, events[i].content_index.v>> :
        i \in {j \in 1..Len(events) :
                  events[j].type \in {"response.output_text.delta",
                                      "response.output_text.done"}}}

\* the text the client received for a slot: its delta fragments joined
ReceivedText(events, slot) ==
    LET deltas == EventsAt(events, {"response.output_text.delta"}, slot[1])
    IN  Join([i \in 1..Len(deltas) |-> deltas[i].delta.v])

\* C19: for each slot (output_index, content_index) of a recorded Responses
\* stream the text aggregateResponsesStreamEvents aggregates is the
\* concatenation of the slot's response.output_text.delta fragments, which is the
\* text of its response.output_text.done event, each character once; the content
\* of the message, when it has one, is these texts in the order of the slots
C19_SlotTextIsReceivedTextOnce ==
    agg.done =>
        /\ \A slot \in TextSlots(agg.events) :
              /\ slot \in DOMAIN agg.textByIndex
              /\ agg.textByIndex[slot] = ReceivedText(agg.events, slot)
        /\ agg.message.some /\ agg.message.v.content.some =>
              LET slots == SortedTextKeys(TextSlots(agg.events))
              IN  agg.message.v.content.v =
                     Join([i \in 1..Len(slots) |-> ReceivedText(agg.events, slots[i])])

\* the arguments the sources give for the function call at outputIndex: the
\* items of the response.output_item events and of the final response, the
\* joined response.function_call_arguments.delta fragments, the
\* response.function_call_arguments.done payload
ArgumentSources(events, outputIndex) ==
    LET items == EventsAt(events, {"response.output_item.added",
                                   "response.output_item.done"}, outputIndex)
        deltas == EventsAt(events, {"response.function_call_arguments.delta"}, outputIndex)
        dones == EventsAt(events, {"response.function_call_arguments.done"}, outputIndex)
        last == events[Len(events)]
    IN  {OrEmpty(items[i].item.v.arguments) : i \in 1..Len(items)}
        \cup {Join([i \in 1..Len(deltas) |-> deltas[i].delta.v])}
        \cup {OrEmpty(dones[i].arguments) : i \in 1..Len(dones)}
        \cup (IF last.type = "response.completed"
              THEN {OrEmpty(last.response.v.output[outputIndex + 1].arguments)}
              ELSE {})

\* the output indices of the function calls of the stream
FunctionCalls(events) ==
    {events[i].output_index.v :
        i \in {j \in 1..Len(events) :
                  /\ events[j].type = "response.output_item.added"
                  /\ events[j].item.v.type = Some("function_call")}}

\* C20: the arguments aggregateResponsesStreamEvents gives a function call are
\* the longest of what its sources give (the output item's own arguments, the
\* buffer accumulated from the function_call_arguments.delta events, the
\* function_call_arguments.done payload): one of them, and never shorter than
\* any of them
C20_ArgumentsAreTheLongestSource ==
    agg.done =>
        \A outputIndex \in FunctionCalls(agg.events) :
            LET sources == ArgumentSources(agg.events, outputIndex)
                arguments == OrEmpty(agg.message.v.output.v[outputIndex + 1].arguments)
            IN  /\ arguments \in sources
                /\ \A source \in sources : RuneCount(arguments) >= RuneCount(source)


\* the slots in ascending numeric order of (output_index, content_index)
RECURSIVE NumericOrder(_)
NumericOrder(slots) ==
    IF slots = {} THEN <<>>
    ELSE LET least == CHOOSE a \in slots :
                         \A b \in slots : a[1] < b[1] \/ (a[1] = b[1] /\ a[2] <= b[2])
         IN  <<least>> \o NumericOrder(slots \ {least})

\* C29: the text aggregateResponsesStreamEvents merges is the texts of the slots
\* joined in ascending numeric order of (output_index, content_index), also for
\* indices of two digits
C29_MergedTextInNumericSlotOrder ==
    (agg.done /\ agg.message.some /\ agg.message.v.content.some) =>
        LET slots == NumericOrder(DOMAIN agg.textByIndex)
        IN  agg.message.v.content.v =
                Join([i \in 1..Len(slots) |-> agg.textByIndex[slots[i]]])


(***************************************************************************)
(* Properties of the way from the capture to the viewer                    *)
(***************************************************************************)

\* the objects the event strings stand for, in the order sent, "[DONE]" left out
RECURSIVE ObjectsSent(_)
ObjectsSent(chunks) ==
    IF chunks = <<>> THEN <<>>
    ELSE LET event == TrimSpace(Head(chunks))
         IN  (IF event = <<>> \/ event = doneSentinel THEN <<>>
              ELSE <<safeParseJson(event).v>>)
             \o ObjectsSent(Tail(chunks))

\* C30: splitStreamingResponse applied to the full payload stored from a list of
\* JSON-object event strings returns the objects of the event strings, as many
\* and in the same order, whatever braces and escaped quotes their string values
\* hold; a "[DONE]" entry gives no object
C30_ViewerSplitsWhatCaptureStored ==
    agg.done => agg.events = ObjectsSent(sent[ContextKeyLoggedResponseBody])

\* three events were captured, "[DONE]" and strings with a brace and with an
\* escaped quote among them, and the viewer has split the payload in two objects
C30_Witness ==
    LET chunks == sent[ContextKeyLoggedResponseBody]
    IN  /\ agg.done
        /\ Len(chunks) = 3
        /\ \E i \in 1..3 : chunks[i] = doneSentinel
        /\ \E i \in 1..3 : chunks[i] = Str(<<123, 34, 99, 34, 58, 34, 92, 34, 123, 34, 125>>)
        /\ Len(agg.events) = 2
        /\ \E i \in 1..2 : /\ Len(agg.events[i].members) = 1
                           /\ agg.events[i].members[1].value = JSONString(Str(<<34, 123>>))


(***************************************************************************)
(* Properties of the quota ledger                                          *)
(***************************************************************************)

\* a settle or a refund of request id is called in this step
SettlementCall(id) == ledger'.requests[id].calls = ledger.requests[id].calls + 1

\* C21: for every request id, of all the settle and refund calls made for it,
\* retries included, at most one changes the quota: a call made when a
\* settlement is already recorded leaves the quota and the record alone, a
\* refunded request has got back its pre_charge once, a settled one the
\* difference to one actual cost once
C21_AtMostOneSettlementHasEffect ==
    /\ [](\A id \in DOMAIN ledger.requests :
            LET request == ledger.requests[id] IN
            /\ request.effects <= 1
            /\ request.settlement = "none" => request.credited = 0
            /\ request.settlement = "refunded" => request.credited = request.pre_charge
            /\ request.settlement = "settled" =>
                   \E actual_cost \in ActualCosts :
                       request.credited = request.pre_charge - actual_cost)
    /\ [][\A id \in DOMAIN ledger.requests :
            (SettlementCall(id) /\ ledger.requests[id].settlement # "none") =>
                /\ ledger'.quota = ledger.quota
                /\ ledger'.requests[id].settlement = ledger.requests[id].settlement]_vars

\* a refund was retried after a settle that had moved the quota
C21_Witness ==
    \E id \in DOMAIN ledger.requests :
        /\ ledger.requests[id].calls = MaxSettleCalls
        /\ ledger.requests[id].settlement = "settled"
        /\ ledger.requests[id].effects = 1

\* the pre_charge of request id goes through in this step
PreCharged(id) ==
    ledger.requests[id].pc # "running" /\ ledger'.requests[id].pc = "running"

\* C22: under every interleaving of the requests on a token, a request goes
\* on only by a deduction made when the quota was at least its estimated
\* cost; the deduction takes exactly that cost, so it leaves a quota of zero
\* or more, and every running request holds its estimated cost as pre_charge
C22_PreChargeAtomicPerToken ==
    /\ [][\A id \in DOMAIN ledger.requests :
            PreCharged(id) =>
                /\ ledger.quota >= ledger.requests[id].estimated_cost
                /\ ledger'.quota = ledger.quota - ledger.requests[id].estimated_cost
                /\ ledger'.quota >= 0]_vars
    /\ [](\A id \in DOMAIN ledger.requests :
            ledger.requests[id].pc = "running" =>
                ledger.requests[id].pre_charge = ledger.requests[id].estimated_cost)

\* two requests read the same quota; one was charged, the other found the
\* quota changed, read again and was turned away
C22_Witness ==
    \E id, other \in DOMAIN ledger.requests :
        /\ ledger.requests[id].pc = "running"
        /\ ledger.requests[other].pc = "insufficient_funds"
        /\ ledger.requests[other].retries > 0


(***************************************************************************)
(* Properties of the dispatcher                                            *)
(***************************************************************************)

\* C23: one request makes at most MAX_RETRIES attempts, each on a candidate
\* and no two on the same channel; only the last attempt can have succeeded
\* or failed fatally for the request, and the loop is over once it has; an
\* attempt starts only on a channel not tried yet, and none starts when no
\* such candidate is left or when the loop is over
C23_RetryLoopBoundedNoRepeatStops ==
    /\ [](/\ Len(dispatch.attempts) <= MAX_RETRIES
          /\ \A i \in DOMAIN dispatch.attempts : dispatch.attempts[i] \in dispatch.candidates
          /\ \A i, j \in DOMAIN dispatch.attempts :
                 dispatch.attempts[i] = dispatch.attempts[j] => i = j
          /\ \A i \in DOMAIN dispatch.outcomes :
                 dispatch.outcomes[i] \in {"ok", "fatal_for_request"} =>
                     /\ i = Len(dispatch.attempts)
                     /\ dispatch.pc = "done"
                     /\ dispatch.result = dispatch.outcomes[i])
    /\ [][dispatch'.attempts # dispatch.attempts =>
            /\ dispatch.pc = "select"
            /\ dispatch.candidates \ dispatch.tried # {}
            /\ dispatch'.chosen \notin dispatch.tried
            /\ dispatch'.attempts = Append(dispatch.attempts, dispatch'.chosen)]_vars
    /\ [][dispatch.pc = "done" => dispatch' = dispatch]_vars

\* the first attempt failed, the second, on another channel, succeeded, and
\* a third candidate was never tried
C23_Witness ==
    /\ dispatch.pc = "done"
    /\ dispatch.result = "ok"
    /\ Len(dispatch.attempts) = 2
    /\ dispatch.candidates \ (dispatch.tried \cup {dispatch.chosen}) # {}

====
